---- MODULE Spec2Model ----
(***************************************************************************)
(* Model of the idmap domain service of middlewared                        *)
(* (src/middlewared/middlewared/plugins/idmap.py): the backend registry,   *)
(* the domain store with its validation, and create / update / delete.     *)
(*                                                                         *)
(* Python values are modelled as follows.  A dict is a function whose      *)
(* DOMAIN is its key set.  Option values are strings ("True", "False",     *)
(* "None", "" ...) so that values of different Python types can share one  *)
(* dict; Truthy gives Python's truth value of such a string.               *)
(***************************************************************************)
EXTENDS Integers, Sequences, FiniteSets, TLC

VARIABLES
    store,      \* the datastore table directoryservice.idmap_domain: id -> row
    ds_state,   \* directoryservices.get_state(): health of 'activedirectory' and 'ldap'
    secrets,    \* directoryservices.set_ldap_secret: set of <<domain, secret>>
    last,       \* the last API call: its arguments, how it ended, what it did
    calls,      \* the number of API calls made so far
    inflight,   \* the calls that have started and not returned: client -> position
    jobs,       \* the clear_idmap_cache jobs, in the order they were queued
    services,   \* which of the services 'idmap' and 'cifs' are running
    registry,   \* smb.reg_globals()['idmap']: the idmap parameters of the live registry
    tdb         \* winbindd_idmap.tdb: the cache table of the default domain

vars == <<store, ds_state, secrets, last, calls, inflight, jobs, services, registry, tdb>>

----------------------------------------------------------------------------
(* Python dict helpers *)

EmptyDict == <<>>

HasKey(d, k) == k \in DOMAIN d

\* dict.get(k): the value, or None
Get(d, k) == IF k \in DOMAIN d THEN d[k] ELSE "None"

\* bool(v) of an option value
Truthy(v) == v \notin {"None", "False", "", "0"}

\* a | b, and a.update(b): keys of b win
Merge(a, b) == [k \in (DOMAIN a) \cup (DOMAIN b) |-> IF k \in DOMAIN b THEN b[k] ELSE a[k]]

\* the dict d without the keys in ks
Without(d, ks) == [k \in (DOMAIN d) \ ks |-> d[k]]

Max(a, b) == IF a >= b THEN a ELSE b

Min(a, b) == IF a <= b THEN a ELSE b

----------------------------------------------------------------------------
(* class DSType *)

DSTypeChoices ==
    {"DS_TYPE_ACTIVEDIRECTORY", "DS_TYPE_LDAP", "DS_TYPE_NIS",
     "DS_TYPE_FREEIPA", "DS_TYPE_DEFAULT_DOMAIN"}

----------------------------------------------------------------------------
(* class IdmapBackend: the 'parameters', 'has_secrets' and 'services' of    *)
(* each member.  A parameter is <<required, default>>.                      *)

Param(required, default) == [required |-> required, default |-> default]

BackendNames == {"AD", "AUTORID", "LDAP", "NSS", "RFC2307", "RID", "TDB"}

IdmapBackend ==
    [AD |->
        [parameters |->
            [schema_mode        |-> Param(FALSE, "RFC2307"),
             unix_primary_group |-> Param(FALSE, "False"),
             unix_nss_info      |-> Param(FALSE, "False")],
         has_secrets |-> "False",
         services |-> {"AD"}],
     AUTORID |->
        [parameters |->
            [rangesize      |-> Param(FALSE, "100000"),
             readonly       |-> Param(FALSE, "False"),
             ignore_builtin |-> Param(FALSE, "False")],
         has_secrets |-> "False",
         services |-> {"AD"}],
     LDAP |->
        [parameters |->
            [ldap_base_dn          |-> Param(TRUE, "None"),
             ldap_user_dn          |-> Param(TRUE, "None"),
             ldap_url              |-> Param(TRUE, "None"),
             ldap_user_dn_password |-> Param(FALSE, "None"),
             ssl                   |-> Param(FALSE, "OFF"),
             validate_certificates |-> Param(FALSE, "True"),
             readonly              |-> Param(FALSE, "False")],
         has_secrets |-> "True",
         services |-> {"AD", "LDAP"}],
     NSS |->
        [parameters |->
            [linked_service |-> Param(FALSE, "LOCAL_ACCOUNT")],
         has_secrets |-> "False",
         services |-> {"AD", "LDAP"}],
     RFC2307 |->
        [parameters |->
            [ldap_server           |-> Param(FALSE, "AD"),
             bind_path_user        |-> Param(FALSE, "None"),
             bind_path_group       |-> Param(FALSE, "None"),
             user_cn               |-> Param(FALSE, "None"),
             cn_realm              |-> Param(FALSE, "None"),
             ldap_domain           |-> Param(FALSE, "None"),
             ldap_url              |-> Param(FALSE, "None"),
             ldap_user_dn          |-> Param(TRUE, "None"),
             ldap_user_dn_password |-> Param(FALSE, "None"),
             ldap_realm            |-> Param(FALSE, "None"),
             validate_certificates |-> Param(FALSE, "True"),
             ssl                   |-> Param(FALSE, "OFF")],
         has_secrets |-> "True",
         services |-> {"AD", "LDAP"}],
     RID |->
        [parameters |->
            [sssd_compat |-> Param(FALSE, "False")],
         has_secrets |-> "False",
         services |-> {"AD"}],
     TDB |->
        [parameters |->
            [readonly |-> Param(FALSE, "False")],
         has_secrets |-> "KeyError",
         services |-> {"AD"}]]

\* IdmapBackend.supported_keys
supported_keys(backend) == DOMAIN IdmapBackend[backend].parameters

\* IdmapBackend.required_keys
required_keys(backend) ==
    {k \in DOMAIN IdmapBackend[backend].parameters :
        IdmapBackend[backend].parameters[k].required}

\* a variant that returns the declared default of every parameter
defaults_with_none(backend) ==
    [k \in DOMAIN IdmapBackend[backend].parameters
        |-> IdmapBackend[backend].parameters[k].default]

\* IdmapBackend.defaults
defaults(backend) ==
    [k \in {x \in DOMAIN IdmapBackend[backend].parameters :
                IdmapBackend[backend].parameters[x].default # "None"}
        |-> IdmapBackend[backend].parameters[k].default]

\* IdmapBackend.ds_choices
ds_choices ==
    [ds \in {"AD", "LDAP"} |-> {x \in BackendNames : ds \in IdmapBackend[x].services}]

\* IdmapBackend.stores_secret
stores_secret(backend) == IdmapBackend[backend].has_secrets

\* IdmapDomainService.backend_choices
backend_choices == ds_choices

----------------------------------------------------------------------------
(* Validation errors.  One entry of ValidationErrors is its attribute, its  *)
(* message and, for a range conflict, the domain and the two ranges the     *)
(* message names.                                                           *)

VErr(attribute, message) ==
    [attribute |-> attribute, message |-> message,
     domain |-> "", existing |-> <<0, 0>>, new |-> <<0, 0>>]

ConflictErr(data, i) ==
    [attribute |-> "range_low", message |-> "conflicts with existing range",
     domain |-> i.name,
     existing |-> <<i.range_low, i.range_high>>,
     new |-> <<data.range_low, data.range_high>>]

----------------------------------------------------------------------------
(* The state the service reads *)

\* IdmapDomainService.query(): every row of the table
query == {store[i] : i \in DOMAIN store}

\* an Int field of a dict that may be absent or null: 0 stands for None
IntOf(d, k) == IF k \in DOMAIN d THEN d[k] ELSE 0

\* certificate.query [['id', '=', c]] finds a certificate
ValidCertificates == {1}

\* the result of validate: the errors collected, and the exception raised, if any
Validated(verrors, raised) == [verrors |-> verrors, raised |-> raised]

\* range(low, high) is empty: indexing it raises IndexError
EmptyRange(low, high) == high <= low

\* a variant that exempts DS_TYPE_DEFAULT_DOMAIN whatever the backend of data
compared_domains_default_exempt(data) ==
    LET ldap_enabled == ds_state.ldap \in {"HEALTHY", "JOINING"}
        ad_enabled == ds_state.activedirectory \in {"HEALTHY", "JOINING"}
        idmap_backend == data.idmap_backend
    IN {i \in query :
            /\ i.id # IntOf(data, "id")
            /\ ~(~ldap_enabled /\ i.name = "DS_TYPE_LDAP")
            /\ ~(~ad_enabled /\ i.name = "DS_TYPE_ACTIVEDIRECTORY")
            /\ ~(i.name = "DS_TYPE_DEFAULT_DOMAIN")
            /\ ~(idmap_backend = "AD" /\ i.idmap_backend = "AD")}

\* the domains of the loop of validate that reach the range comparison
\* (lines 512-533: none of the 'continue' statements is taken)
compared_domains(data) ==
    LET ldap_enabled == ds_state.ldap \in {"HEALTHY", "JOINING"}
        ad_enabled == ds_state.activedirectory \in {"HEALTHY", "JOINING"}
        idmap_backend == data.idmap_backend
    IN {i \in query :
            /\ i.id # IntOf(data, "id")
            /\ ~(~ldap_enabled /\ i.name = "DS_TYPE_LDAP")
            /\ ~(~ad_enabled /\ i.name = "DS_TYPE_ACTIVEDIRECTORY")
            /\ ~(idmap_backend = "AUTORID" /\ i.name = "DS_TYPE_DEFAULT_DOMAIN")
            /\ ~(idmap_backend = "AD" /\ i.idmap_backend = "AD")}

\* the test of line 536: range(max(lows), min(highs - 1) + 1) is not empty
ranges_conflict(data, i) ==
    Max(i.range_low, data.range_low) < Min(i.range_high - 1, data.range_high - 1) + 1

\* a variant that never finds the name in use
name_collisions_none(data) == {}

\* lines 512-518 of validate: the other rows that carry the name of data
name_collisions(data) == {x \in query : x.id # IntOf(data, "id") /\ x.name = data.name}

\* IdmapDomainService.validate
validate(data, verrors) ==
    LET e1 == verrors \cup
              (IF data.name = "DS_TYPE_LDAP"
               THEN (IF data.idmap_backend \notin backend_choices["LDAP"]
                     THEN {VErr("idmap_backend", "not appropriate for the system domain type")}
                     ELSE {})
               ELSE IF data.name = "DS_TYPE_DEFAULT_DOMAIN"
               THEN (IF data.idmap_backend # "TDB"
                     THEN {VErr("idmap_backend", "TDB is the only supported idmap backend")}
                     ELSE {})
               ELSE {})
    IN IF data.range_high < data.range_low
       THEN Validated(e1 \cup {VErr("range_low", "high range must be greater than low range")},
                      "None")
       ELSE
       LET e2 == e1 \cup
                 (IF IntOf(data, "certificate") # 0
                     /\ IntOf(data, "certificate") \notin ValidCertificates
                  THEN {VErr("certificate", "Please specify a valid certificate.")}
                  ELSE {})
           e3 == e2 \cup
                 {VErr("name", "Name must be unique.") :
                    i \in name_collisions(data)}
           compared == compared_domains(data)
       IN IF \E i \in compared :
                \/ EmptyRange(i.range_low, i.range_high)
                \/ EmptyRange(data.range_low, data.range_high)
          THEN Validated(e3, "IndexError")
          ELSE Validated(
                e3 \cup {ConflictErr(data, i) : i \in {x \in compared : ranges_conflict(data, x)}},
                "None")

\* a variant that never reports a missing key
validate_options_extra_only(data, check) ==
    IF "EXTRA" \in check
    THEN {VErr("options." \o k, "is not a valid parameter") :
            k \in (DOMAIN data.options) \ supported_keys(data.idmap_backend)}
    ELSE {}

\* a variant that runs both checks whatever the caller asks for
validate_options_both(data, check) ==
    {VErr("options." \o k, "is a required parameter") :
        k \in required_keys(data.idmap_backend) \ DOMAIN data.options}
    \cup {VErr("options." \o k, "is not a valid parameter") :
        k \in (DOMAIN data.options) \ supported_keys(data.idmap_backend)}

\* IdmapDomainService.validate_options: the errors it adds
validate_options(data, check) ==
    LET supported == supported_keys(data.idmap_backend)
        required == required_keys(data.idmap_backend)
        provided_keys == DOMAIN data.options
        missing_keys == required \ provided_keys
        extra_keys == provided_keys \ supported
    IN (IF "MISSING" \in check
        THEN {VErr("options." \o k, "is a required parameter") : k \in missing_keys}
        ELSE {})
       \cup
       (IF "EXTRA" \in check
        THEN {VErr("options." \o k, "is not a valid parameter") : k \in extra_keys}
        ELSE {})

\* IdmapDomainService.prune_keys: data with the unsupported options removed
prune_keys(data) ==
    [data EXCEPT !.options =
        Without(data.options, (DOMAIN data.options) \ supported_keys(data.idmap_backend))]

\* the amount get_next_idmap_range and the sssd_compat range add to a low bound
RangeIncrement == 100000000

\* a variant that continues after the lowest range_high
get_next_idmap_range_lowest ==
    IF query = {}
    THEN <<>>
    ELSE LET first_domain == CHOOSE d \in query : \A e \in query : d.range_high <= e.range_high
         IN <<first_domain.range_high + 1, first_domain.range_high + RangeIncrement>>

\* IdmapDomainService.get_next_idmap_range: <<low, high>>; on an empty table
\* sorted_idmaps[-1] raises IndexError, modelled as <<>>
get_next_idmap_range ==
    IF query = {}
    THEN <<>>
    ELSE LET last_domain == CHOOSE d \in query : \A e \in query : e.range_high <= d.range_high
         IN <<last_domain.range_high + 1, last_domain.range_high + RangeIncrement>>

----------------------------------------------------------------------------
(* The compatibility range.  idmap.domain_info is a call to winbindd: it    *)
(* raises WBCError or returns the domain's SID, a string, here the sequence *)
(* of its code points.  get_sssd_low_range hashes the SID's UTF-8 bytes     *)
(* with 32-bit arithmetic; a 32-bit word is the pair <<high, low>> of its   *)
(* 16-bit halves, so that no intermediate value leaves the integers TLC     *)
(* computes with.                                                           *)

\* one more than the largest value of a half word
Half == 65536

\* a ^ b on bits, on four bits and on half words
Xor1(a, b) == (a + b) % 2

Xor4(a, b) ==
    Xor1(a % 2, b % 2) + 2 * Xor1((a \div 2) % 2, (b \div 2) % 2)
    + 4 * Xor1((a \div 4) % 2, (b \div 4) % 2) + 8 * Xor1(a \div 8, b \div 8)

Xor16(a, b) ==
    Xor4(a % 16, b % 16) + 16 * Xor4((a \div 16) % 16, (b \div 16) % 16)
    + 256 * Xor4((a \div 256) % 16, (b \div 256) % 16)
    + 4096 * Xor4(a \div 4096, b \div 4096)

\* x ^ y
XorW(x, y) == <<Xor16(x[1], y[1]), Xor16(x[2], y[2])>>

\* the low and the high half of the product of two half words
MulLow16(a, b) == (a * (b % 256) + ((a * (b \div 256)) % 256) * 256) % Half

MulHigh16(a, b) ==
    LET p0 == a * (b % 256)
        p1 == a * (b \div 256)
    IN (p1 \div 256) + ((p0 + (p1 % 256) * 256) \div Half)

\* (x * y) & 0xFFFFFFFF
MulW(x, y) ==
    <<(MulHigh16(x[2], y[2]) + MulLow16(x[1], y[2]) + MulLow16(x[2], y[1])) % Half,
      MulLow16(x[2], y[2])>>

\* (x + y) & 0xFFFFFFFF
AddW(x, y) ==
    <<(x[1] + y[1] + ((x[2] + y[2]) \div Half)) % Half, (x[2] + y[2]) % Half>>

\* (x << r | x >> 32 - r) & 0xFFFFFFFF, for 0 < r < 16
RotlW(x, r) ==
    <<((x[1] * 2^r) % Half) + (x[2] \div 2^(16 - r)),
      ((x[2] * 2^r) % Half) + (x[1] \div 2^(16 - r))>>

\* x >> r, for 0 < r <= 16
ShrW(x, r) ==
    <<x[1] \div 2^r, ((x[2] \div 2^r) + (x[1] % 2^r) * 2^(16 - r)) % Half>>

\* x % m, for 0 < m <= 2^15
ModW(x, m) == ((x[1] % m) * (Half % m) + x[2]) % m

\* seed=0xdeadbeef and the constants of lines 374-378
seed == <<57005, 48879>>

c1 == <<52382, 11601>>

c2 == <<7047, 13715>>

r1 == 15

r2 == 13

\* n = 0xe6546b64 of line 378
mix_n == <<58964, 27492>>

\* the multipliers of lines 406 and 408: 0x85ebca6b and 0xc2b2ae35
fmix1 == <<34283, 51819>>

fmix2 == <<49842, 44597>>

\* the defaults of sssd_config (lines 364-366)
SssdRangeSize == 200000

SssdRangeLow == 10001

SssdRangeMax == 2000200000

\* int((range_max - range_low) / range_size)
max_slices == (SssdRangeMax - SssdRangeLow) \div SssdRangeSize

\* the UTF-8 bytes of one code point below 0x800: one byte below 0x80, else two
encode_char(c) == IF c < 128 THEN <<c>> ELSE <<192 + (c \div 64), 128 + (c % 64)>>

RECURSIVE encode(_)
\* str.encode()
encode(sid) ==
    IF Len(sid) = 0 THEN <<>>
    ELSE IF Len(sid) = 1 THEN encode_char(sid[1])
    ELSE LET half == Len(sid) \div 2
         IN encode(SubSeq(sid, 1, half)) \o encode(SubSeq(sid, half + 1, Len(sid)))

\* a variant that reads the four bytes most significant first
from_bytes_big(b) == <<b[1] * 256 + b[2], b[3] * 256 + b[4]>>

\* int.from_bytes(data_bytes[:4], byteorder='little')
from_bytes_little(b) == <<b[4] * 256 + b[3], b[2] * 256 + b[1]>>

\* lines 384-386 and 399-401: k = rotl(k * c1, r1) * c2
scramble(k) == MulW(RotlW(MulW(k, c1), r1), c2)

\* the values of a 32-bit word
Words == (0..(Half - 1)) \X (0..(Half - 1))

RECURSIVE hash_blocks(_, _)
\* the loop of lines 380-389: <<hash_, data_bytes>> when it ends.  hash_ is a
\* 32-bit word (every assignment ends with & 0xFFFFFFFF); testing it has TLC
\* compute the hash of one block before it turns to the next
hash_blocks(hash_, data_bytes) ==
    IF hash_ \in Words /\ Len(data_bytes) >= 4
    THEN LET k == scramble(from_bytes_little(SubSeq(data_bytes, 1, 4)))
             h == AddW(MulW(RotlW(XorW(hash_, k), r2), <<0, 5>>), mix_n)
         IN hash_blocks(h, SubSeq(data_bytes, 5, Len(data_bytes)))
    ELSE <<hash_, data_bytes>>

\* lines 391-402: the one to three bytes the loop left
hash_tail(hash_, data_bytes) ==
    LET datalen == Len(data_bytes)
        k == <<IF datalen >= 3 THEN data_bytes[3] ELSE 0,
               (IF datalen >= 2 THEN data_bytes[2] * 256 ELSE 0)
               + (IF datalen >= 1 THEN data_bytes[1] ELSE 0)>>
    IN IF datalen > 0 THEN XorW(hash_, scramble(k)) ELSE hash_

\* x, once the words ws it is built from are computed: TLC computes a value
\* when a test needs it, so that a long chain of assignments is computed one
\* assignment at a time, as the code computes it
Having(ws, x) == IF ws \subseteq Words THEN x ELSE x

\* lines 404-409: hash_ after the length and the final mixing
hash_final(hash_, length) ==
    LET h0 == XorW(hash_, <<length \div Half, length % Half>>)
        h1 == XorW(h0, ShrW(h0, 16))
        h2 == MulW(h1, fmix1)
        h3 == XorW(h2, ShrW(h2, 13))
        h4 == MulW(h3, fmix2)
    IN Having({h0, h1, h2, h3, h4}, XorW(h4, ShrW(h4, 16)))

\* hash_ at line 411, for the SID sid
sid_hash(sid) ==
    LET data == encode(sid)
        blocks == hash_blocks(seed, data)
        tail == hash_tail(blocks[1], blocks[2])
    IN Having({blocks[1], tail}, hash_final(tail, Len(data)))

DomainInfo(error, sid) == [error |-> error, sid |-> sid]

\* IdmapDomainService.get_sssd_low_range, given what idmap.domain_info answered
get_sssd_low_range(info) ==
    ModW(sid_hash(info.sid), max_slices) * SssdRangeSize + SssdRangeSize

----------------------------------------------------------------------------
(* How a call ends: its status ("ok" or the exception raised), the          *)
(* validation errors reported, the table and the secret store after it and  *)
(* the calls it made to other services, in order.                           *)

Outcome(status, verrors, table, secret_store, effects) ==
    [status |-> status, verrors |-> verrors, table |-> table,
     secret_store |-> secret_store, effects |-> effects]

\* an exception leaves the call before anything is written
Raised(status, verrors, effects) == Outcome(status, verrors, store, secrets, effects)

\* the outcome o of the rest of a call that had already made the calls pre
After(pre, o) == [o EXCEPT !.effects = pre \o @]

\* the columns of IdmapDomainModel, without the datastore prefix
Columns == {"id", "name", "range_low", "range_high", "idmap_backend", "options", "certificate"}

\* datastore.insert gives the new row the next rowid
NewId == IF DOMAIN store = {} THEN 1
         ELSE (CHOOSE i \in DOMAIN store : \A j \in DOMAIN store : j <= i) + 1

\* IdmapDomainService.idmap_conf_to_client_config: the exception it raises, or "None"
idmap_conf_to_client_config(data) ==
    LET options == data.options
        needed ==
            (IF data.idmap_backend = "LDAP"
             THEN {"ldap_url", "ldap_base_dn"}
             ELSE (IF options["ldap_server"] = "AD" THEN {"ldap_domain"} ELSE {"ldap_url"})
                  \cup {"bind_path_user"})
            \cup {"ldap_user_dn", "ldap_user_dn_password", "ssl", "validate_certificates"}
    IN IF data.idmap_backend \notin {"LDAP", "RFC2307"} THEN "CallError"
       ELSE IF data.idmap_backend = "RFC2307" /\ ~HasKey(options, "ldap_server") THEN "KeyError"
       ELSE IF ~(needed \subseteq DOMAIN options) THEN "KeyError"
       ELSE "None"

\* the domain a secret is stored under (lines 807-811 and 891-895)
secret_domain(name) == IF name \in DSTypeChoices THEN "WORKGROUP" ELSE name

\* directoryservices.set_ldap_secret: one secret per domain
set_ldap_secret(domain, secret) ==
    {x \in secrets : x[1] # domain} \cup {<<domain, secret>>}

\* a variant that leaves the daemon running whatever the caller asks for
synchronize_without_restart(restart) ==
    <<"smb.reg_globals", "sharing.smb.apply_conf_diff">>

\* IdmapDomainService.synchronize(restart)
synchronize(restart) ==
    <<"smb.reg_globals", "sharing.smb.apply_conf_diff">>
    \o (IF restart THEN <<"service.restart idmap">> ELSE <<>>)

\* a variant that takes a service that is joining for a healthy one
ad_healthy_or_joining(state) == state \in {"HEALTHY", "JOINING"}

\* lines 789 and 861: activedirectory.get_state must answer HEALTHY
ad_healthy(state) == state = "HEALTHY"

\* a variant in which the defaults override the caller's values
final_options_defaults_win(backend, options) == Merge(options, defaults(backend))

\* final_options = IdmapBackend[backend].defaults() | options (lines 825, 887)
final_options(backend, options) == Merge(defaults(backend), options)

\* a variant that finds no secret in any options
has_secret_never(options) == FALSE

\* lines 806 and 890: options.get('ldap_user_dn_password') is truthy
has_secret(options) == Truthy(Get(options, "ldap_user_dn_password"))

\* a variant that stores the secret before the trial connection is made
credentials_failed_after_secret(domain, secret) ==
    Outcome("CallError", {}, store, set_ldap_secret(domain, secret),
            <<"directoryservices.set_ldap_secret", "ldapclient.validate_credentials">>)

\* lines 813-816 and 897-900: ldapclient.validate_credentials raises, before
\* the secret is popped and stored
credentials_failed(domain, secret) ==
    Raised("CallError", {}, <<"ldapclient.validate_credentials">>)

\* lines 806-835 of do_create: the secret, the defaults, the insert
create_persist(data, cred_ok) ==
    LET with_secret == has_secret(data.options)
        conf == idmap_conf_to_client_config(data)
        d1 == IF with_secret
              THEN [data EXCEPT !.options = Without(@, {"ldap_user_dn_password"})]
              ELSE data
        secret_effects ==
            IF with_secret
            THEN <<"ldapclient.validate_credentials",
                   "directoryservices.set_ldap_secret", "directoryservices.backup_secrets">>
            ELSE <<>>
        row == Merge([d1 EXCEPT !.options = final_options(d1.idmap_backend, d1.options)],
                     [id |-> NewId])
    IN IF with_secret /\ conf # "None" THEN Raised(conf, {}, <<>>)
       ELSE IF with_secret /\ ~cred_ok
       THEN credentials_failed(secret_domain(data.name),
                               data.options["ldap_user_dn_password"])
       ELSE Outcome("ok", {},
                    [i \in (DOMAIN store) \cup {NewId} |-> IF i = NewId THEN row ELSE store[i]],
                    IF with_secret
                    THEN set_ldap_secret(secret_domain(data.name),
                                         data.options["ldap_user_dn_password"])
                    ELSE secrets,
                    secret_effects \o <<"datastore.insert">> \o synchronize(TRUE))

\* lines 795-796 and 867-868: the range that starts at range_low
with_sssd_range(data, range_low) ==
    [data EXCEPT !.range_low = range_low, !.range_high = range_low + RangeIncrement]

\* what the compatibility step has called
sssd_calls(sssd) ==
    IF sssd THEN <<"activedirectory.get_state", "idmap.domain_info">> ELSE <<>>

\* lines 798-835 of do_create: d1 is data with the range it is validated with
create_checked(d1, e1, pre, cred_ok) ==
    LET v == validate(d1, e1)
        e2 == v.verrors
              \cup validate_options(d1, {"MISSING", "EXTRA"})
              \cup (IF IntOf(d1, "certificate_id") # 0 /\ ~Truthy(Get(d1.options, "ssl"))
                    THEN {VErr("certificate_id", "Certificates do not apply.")}
                    ELSE {})
    IN IF v.raised # "None" THEN Raised(v.raised, {}, pre)
       ELSE IF e2 # {} THEN Raised("ValidationErrors", e2, pre)
       ELSE After(pre, create_persist(d1, cred_ok))

\* IdmapDomainService.do_create
do_create(data, info, cred_ok) ==
    LET e1 == IF data.name \in {x.name : x \in query}
              THEN {VErr("name", "Domain names must be unique.")}
              ELSE {}
        sssd == Truthy(Get(data.options, "sssd_compat"))
    IN IF sssd /\ ~ad_healthy(ds_state.activedirectory)
       THEN Raised("ValidationErrors",
                   e1 \cup {VErr("options", "AD service must be enabled and started")},
                   <<"activedirectory.get_state">>)
       ELSE IF sssd /\ info.error # "None"
       THEN Raised(info.error, {}, <<"activedirectory.get_state", "idmap.domain_info">>)
       ELSE create_checked(IF sssd THEN with_sssd_range(data, get_sssd_low_range(info))
                           ELSE data,
                           e1, sssd_calls(sssd), cred_ok)

\* a variant that starts the job and returns without waiting for it
update_tail_no_wait == synchronize(FALSE) \o <<"idmap.clear_idmap_cache">>

\* lines 913-915 of do_update: synchronize(False), then the job and its wait()
update_tail == synchronize(FALSE) \o <<"idmap.clear_idmap_cache", "cache_job.wait">>

\* lines 886-917 of do_update: the pruning, the defaults, the secret, the update
update_persist(new, cred_ok) ==
    LET pruned == prune_keys(new)
        n1 == [pruned EXCEPT !.options = final_options(pruned.idmap_backend, pruned.options)]
        with_secret == has_secret(n1.options)
        conf == idmap_conf_to_client_config(n1)
        n2 == IF with_secret
              THEN [n1 EXCEPT !.options = Without(@, {"ldap_user_dn_password"})]
              ELSE n1
        secret_effects ==
            IF with_secret
            THEN <<"ldapclient.validate_credentials",
                   "directoryservices.set_ldap_secret", "directoryservices.backup_secrets">>
            ELSE <<>>
    IN IF with_secret /\ conf # "None" THEN Raised(conf, {}, <<>>)
       ELSE IF with_secret /\ ~cred_ok
       THEN credentials_failed(secret_domain(n1.name),
                               n1.options["ldap_user_dn_password"])
       ELSE Outcome("ok", {},
                    [store EXCEPT ![n2.id] = [k \in Columns |-> n2[k]]],
                    IF with_secret
                    THEN set_ldap_secret(secret_domain(n2.name),
                                         n1.options["ldap_user_dn_password"])
                    ELSE secrets,
                    secret_effects \o <<"datastore.update">> \o update_tail)

\* a variant that lets a system domain change its name
rename_errors_none(old, new) == {}

\* lines 855-857 of do_update: a system domain keeps its name
rename_errors(old, new) ==
    IF old.name \in DSTypeChoices /\ old.name # new.name
    THEN {VErr("name", "Changing name of default domain is not permitted")}
    ELSE {}

\* lines 870-917 of do_update: n1 is the new record with the range it is
\* validated with, e1 the errors found so far
update_checked(data, data_options, n1, e1, pre, cred_ok) ==
    LET tmp == Merge(Merge(data, [idmap_backend |-> n1.idmap_backend]),
                     [options |-> data_options])
        e2 == e1 \cup
              (IF n1.idmap_backend = "AUTORID" /\ n1.name # "DS_TYPE_ACTIVEDIRECTORY"
               THEN {VErr("idmap_backend", "AUTORID is only permitted for DS_TYPE_ACTIVEDIRECTORY")}
               ELSE {})
        v == validate(n1, e2)
        e3 == v.verrors
              \cup validate_options(n1, {"MISSING"})
              \cup (IF data_options # EmptyDict THEN validate_options(tmp, {"EXTRA"}) ELSE {})
        cert_key_error == IntOf(data, "certificate_id") # 0 /\ ~HasKey(data, "options")
        e4 == e3 \cup
              (IF IntOf(data, "certificate_id") # 0 /\ ~Truthy(Get(data_options, "ssl"))
               THEN {VErr("certificate_id", "Certificates do not apply.")}
               ELSE {})
    IN IF v.raised # "None" THEN Raised(v.raised, {}, pre)
       ELSE IF cert_key_error THEN Raised("KeyError", {}, pre)
       ELSE IF e4 # {} THEN Raised("ValidationErrors", e4, pre)
       ELSE After(pre, update_persist(n1, cred_ok))

\* IdmapDomainService.do_update
do_update(id_, data, info, cred_ok) ==
    LET old == store[id_]
        data_options == IF HasKey(data, "options") THEN data.options ELSE EmptyDict
        backend_changed == /\ HasKey(data, "idmap_backend")
                           /\ data.idmap_backend # ""
                           /\ data.idmap_backend # old.idmap_backend
        new == [Merge(old, data) EXCEPT !.options =
                    IF backend_changed THEN data_options ELSE Merge(old.options, data_options)]
        e1 == rename_errors(old, new)
        sssd == /\ Truthy(Get(new.options, "sssd_compat"))
                /\ ~Truthy(Get(old.options, "sssd_compat"))
    IN IF sssd /\ ~ad_healthy(ds_state.activedirectory)
       THEN Raised("ValidationErrors",
                   e1 \cup {VErr("options", "AD service must be enabled and started")},
                   <<"activedirectory.get_state">>)
       ELSE IF sssd /\ info.error # "None"
       THEN Raised(info.error, {}, <<"activedirectory.get_state", "idmap.domain_info">>)
       ELSE update_checked(data, data_options,
                           IF sssd THEN with_sssd_range(new, get_sssd_low_range(info))
                           ELSE new,
                           e1, sssd_calls(sssd), cred_ok)

\* a variant that deletes whatever the name
do_delete_unguarded(id_) ==
    Outcome("ok", {}, [i \in (DOMAIN store) \ {id_} |-> store[i]], secrets,
            <<"datastore.delete">> \o synchronize(TRUE))

\* IdmapDomainService.do_delete
do_delete(id_) ==
    LET entry == store[id_]
    IN IF entry.name \in DSTypeChoices
       THEN Raised("EPERM", {}, <<>>)
       ELSE Outcome("ok", {}, [i \in (DOMAIN store) \ {id_} |-> store[i]], secrets,
                    <<"datastore.delete">> \o synchronize(TRUE))

----------------------------------------------------------------------------
(* The initial table: the three system domains (do_create's docstring),     *)
(* with disjoint ranges and the options of their backends.                  *)

Row(id, name, low, high, backend, options) ==
    [id |-> id, name |-> name, range_low |-> low, range_high |-> high,
     idmap_backend |-> backend, options |-> options, certificate |-> 0]

InitialStore ==
    [i \in {1, 2, 3} |->
        CASE i = 1 -> Row(1, "DS_TYPE_ACTIVEDIRECTORY", 100000001, 200000000, "RID",
                          defaults("RID"))
          [] i = 2 -> Row(2, "DS_TYPE_LDAP", 10000, 90000000, "LDAP",
                          Merge(defaults("LDAP"),
                                [ldap_base_dn |-> "dc=x", ldap_user_dn |-> "cn=x",
                                 ldap_url |-> "ldap.x"]))
          [] i = 3 -> Row(3, "DS_TYPE_DEFAULT_DOMAIN", 90000001, 100000000, "TDB",
                          defaults("TDB"))]

\* the health states of a directory service
DSStatus == {"HEALTHY", "JOINING", "FAULTED", "DISABLED"}

NoCall ==
    [op |-> "none", id |-> 0, data |-> EmptyDict, next_range |-> <<>>,
     status |-> "none", verrors |-> {}, effects |-> <<>>, result |-> EmptyDict,
     error |-> "None"]

\* winbindd_idmap.tdb does not exist
NoTdb == [file |-> FALSE, table |-> EmptyDict]

\* the clients that may have a call in flight at the same time
Clients == {1, 2}

\* a client that has no call in flight
Idle == [op |-> "idle", id |-> 0, data |-> EmptyDict, row |-> EmptyDict,
         todo |-> <<>>, done |-> <<>>, job |-> 0]

\* no call is in flight, no job was queued, both services run; the registry and
\* the cache table are followed in SpecSync and SpecTdb only
Quiet ==
    /\ inflight = [p \in Clients |-> Idle]
    /\ jobs = <<>>
    /\ services = [idmap |-> TRUE, cifs |-> TRUE]
    /\ registry = EmptyDict
    /\ tdb = NoTdb

Init ==
    /\ store = InitialStore
    /\ ds_state \in [activedirectory : DSStatus, ldap : {"HEALTHY", "DISABLED"}]
    /\ secrets = {}
    /\ last = NoCall
    /\ calls = 0
    /\ Quiet

\* the number of API calls a behaviour makes
MaxCalls == 3

\* a call returns (or raises): the table and the secret store are as it left them
Return(op, id_, data, allocated, o) ==
    /\ calls < MaxCalls
    /\ calls' = calls + 1
    /\ store' = o.table
    /\ secrets' = o.secret_store
    /\ last' = [op |-> op, id |-> id_, data |-> data, next_range |-> allocated,
                status |-> o.status, verrors |-> o.verrors, effects |-> o.effects,
                result |-> EmptyDict, error |-> "None"]
    /\ UNCHANGED <<ds_state, inflight, jobs, services, registry, tdb>>

----------------------------------------------------------------------------
(* The calls and their arguments.  The arguments are drawn from small sets  *)
(* chosen so that ranges overlap partly, contain each other, touch at an    *)
(* endpoint, are empty or inverted, and meet the system domains' ranges.    *)

CreateData(name, range, backend, options) ==
    [name |-> name, range_low |-> range[1], range_high |-> range[2],
     idmap_backend |-> backend, options |-> options, certificate |-> 0]

RangeChoices ==
    {<<1000000, 1100000>>, <<1050000, 1150000>>, <<1100000, 1200000>>,
     <<1100000, 1100000>>, <<1100000, 1000000>>, <<95000000, 100000000>>}

UserNames == {"CORP", "corp"}

\* creates of user domains: every range with RID, overlapping pairs with AD,
\* the default domain's range with AUTORID, and a reserved name that exists
RangeCreates ==
    {CreateData(n, r, "RID", EmptyDict) : n \in UserNames, r \in RangeChoices}
    \cup {CreateData(n, r, "AD", EmptyDict) :
            n \in UserNames, r \in {<<1000000, 1100000>>, <<1050000, 1150000>>}}
    \cup {CreateData(n, r, "AUTORID", EmptyDict) :
            n \in UserNames, r \in {<<1050000, 1150000>>, <<95000000, 100000000>>}}
    \cup {CreateData("DS_TYPE_DEFAULT_DOMAIN", <<1000000, 1100000>>, "TDB", EmptyDict),
          CreateData("DS_TYPE_NIS", <<1000000, 1100000>>, "RID", EmptyDict)}

\* creates in the range get_next_idmap_range returns (the range given here is replaced)
NextRangeCreates ==
    {CreateData(n, <<0, 0>>, "RID", EmptyDict) : n \in UserNames}

RangePatches ==
    {[range_low |-> r[1], range_high |-> r[2]] :
        r \in {<<1050000, 1150000>>, <<1100000, 1200000>>, <<1100000, 1100000>>,
               <<1100000, 1000000>>, <<95000000, 100000000>>}}
    \cup {[idmap_backend |-> b] : b \in {"RID", "AD", "AUTORID", "LDAP"}}
    \cup {[name |-> n] : n \in {"corp", "DS_TYPE_LDAP"}}
    \cup {[name |-> n, range_low |-> 1100000, range_high |-> 1000000] :
            n \in {"corp", "DS_TYPE_LDAP"}}

\* the code points of "S-1-5-21-" followed by the decimal digits given
Sid(digits) == <<83, 45, 49, 45, 53, 45, 50, 49, 45>> \o [i \in DOMAIN digits |-> 48 + digits[i]]

\* what idmap.domain_info answers: an error, or a SID: S-1-5-21-15948 hashes to
\* slice 4 (the range from 1000000 on), S-1-5-21-14190 to slice 1000
DomainInfos ==
    {DomainInfo("WBCError", <<>>),
     DomainInfo("None", Sid(<<1, 5, 9, 4, 8>>)),
     DomainInfo("None", Sid(<<1, 4, 1, 9, 0>>))}

\* the answers of winbindd and of the LDAP server matter only to a call that asks
InfosFor(options) ==
    IF Truthy(Get(options, "sssd_compat")) THEN DomainInfos ELSE {DomainInfo("None", <<>>)}

CredsFor(options) ==
    IF Truthy(Get(options, "ldap_user_dn_password")) THEN BOOLEAN ELSE {TRUE}

OptionsOf(data) == IF HasKey(data, "options") THEN data.options ELSE EmptyDict

\* the id of the row a call wrote, 0 if it wrote none
Written(o, id_) == IF o.status = "ok" THEN id_ ELSE 0

\* idmap.create
Create(inputs) ==
    /\ \E data \in inputs :
       \E info \in InfosFor(data.options), cred_ok \in CredsFor(data.options) :
         LET o == do_create(data, info, cred_ok)
         IN Return("create", Written(o, NewId), data, <<>>, o)

\* idmap.get_next_idmap_range followed by idmap.create with the range it returned
CreateInNextRange(inputs) ==
    /\ get_next_idmap_range # <<>>
    /\ \E d \in inputs :
       \E info \in InfosFor(d.options), cred_ok \in CredsFor(d.options) :
         LET r == get_next_idmap_range
             data == [d EXCEPT !.range_low = r[1], !.range_high = r[2]]
             o == do_create(data, info, cred_ok)
         IN Return("create", Written(o, NewId), data, r, o)

\* idmap.update
Update(patches) ==
    \E id_ \in DOMAIN store, data \in patches :
      \E info \in InfosFor(OptionsOf(data)), cred_ok \in CredsFor(OptionsOf(data)) :
        Return("update", id_, data, <<>>, do_update(id_, data, info, cred_ok))

\* idmap.delete
Delete ==
    \E id_ \in DOMAIN store :
        Return("delete", id_, EmptyDict, <<>>, do_delete(id_))

Next ==
    \/ Create(RangeCreates)
    \/ CreateInNextRange(NextRangeCreates)
    \/ Update(RangePatches)
    \/ Delete

Spec == Init /\ [][Next]_vars

----------------------------------------------------------------------------
(* The same calls with arguments that vary the backend and its options:     *)
(* no options, options the backend does not support, the required keys of   *)
(* LDAP with and without a bind password, the compatibility range.          *)

LdapRequired == [ldap_base_dn |-> "dc=y", ldap_user_dn |-> "cn=y", ldap_url |-> "ldap.y"]

LdapWithSecret(password) ==
    Merge(LdapRequired,
          [ldap_user_dn_password |-> password, ssl |-> "ON", validate_certificates |-> "False"])

OptionChoices ==
    {EmptyDict,
     [sssd_compat |-> "True"],
     [readonly |-> "True"],
     [ldap_user_dn |-> "cn=z"],
     LdapRequired,
     LdapWithSecret("secret"),
     LdapWithSecret("")}

\* each user name with a range of its own, every backend below with every option set
OptionCreates ==
    {CreateData(n[1], n[2], b, o) :
        n \in {<<"CORP", <<1000000, 1100000>>>>, <<"corp", <<1100000, 1200000>>>>},
        b \in {"RID", "LDAP"},
        o \in OptionChoices}

OptionPatches ==
    {[options |-> o] : o \in OptionChoices}
    \cup {[idmap_backend |-> b] : b \in {"RID", "LDAP", "TDB"}}
    \cup {[idmap_backend |-> "LDAP", options |-> o] :
            o \in {LdapRequired, LdapWithSecret("secret")}}
    \cup {[idmap_backend |-> "RID", options |-> [sssd_compat |-> "True"]],
          [idmap_backend |-> "TDB", options |-> [readonly |-> "True"]]}
    \cup {[name |-> n] : n \in UserNames}

\* the LDAP directory service is off, so that its system domain's range is free
InitOptions ==
    /\ store = InitialStore
    /\ ds_state \in [activedirectory : {"HEALTHY", "JOINING"}, ldap : {"DISABLED"}]
    /\ secrets = {}
    /\ last = NoCall
    /\ calls = 0
    /\ Quiet

NextOptions ==
    \/ Create(OptionCreates)
    \/ CreateInNextRange(NextRangeCreates)
    \/ Update(OptionPatches)
    \/ Delete

SpecOptions == InitOptions /\ [][NextOptions]_vars

----------------------------------------------------------------------------
(* get_sssd_low_range on its own: one call with a SID drawn from strings of *)
(* every length modulo four, among them the empty string, a SID of a real   *)
(* domain and one with a character outside ASCII.                           *)

\* the sequences over S of length at most len
SeqsUpTo(S, len) == UNION {[1..m -> S] : m \in 0..len}

\* "S-1-5-21-3623811015-3361044348-30300820"
LongSid ==
    <<83, 45, 49, 45, 53, 45, 50, 49, 45, 51, 54, 50, 51, 56, 49, 49, 48, 49, 53, 45,
      51, 51, 54, 49, 48, 52, 52, 51, 52, 56, 45, 51, 48, 51, 48, 48, 56, 50, 48>>

Sids ==
    {<<83, 45, 49, 45>> \o [i \in DOMAIN d |-> 48 + d[i]] : d \in SeqsUpTo({0, 5, 9}, 3)}
    \cup {Sid(d) : d \in SeqsUpTo({1, 4, 7, 9}, 3)}
    \cup {info.sid : info \in DomainInfos}
    \cup {LongSid, <<83, 45, 233, 53>>}

\* idmap.get_sssd_low_range(domain), idmap.domain_info answering sid
GetSssdLowRange ==
    \E sid \in Sids :
        LET range_low == get_sssd_low_range(DomainInfo("None", sid))
        IN /\ calls = 0
           /\ calls' = calls + 1
           /\ last' = [NoCall EXCEPT !.op = "get_sssd_low_range", !.data = [sid |-> sid],
                                     !.next_range = <<range_low, range_low + RangeIncrement>>,
                                     !.status = "ok"]
           /\ UNCHANGED <<store, ds_state, secrets, inflight, jobs, services, registry, tdb>>

InitHash ==
    /\ store = InitialStore
    /\ ds_state = [activedirectory |-> "HEALTHY", ldap |-> "DISABLED"]
    /\ secrets = {}
    /\ last = NoCall
    /\ calls = 0
    /\ Quiet

NextHash == GetSssdLowRange

SpecHash == InitHash /\ [][NextHash]_vars

----------------------------------------------------------------------------
(* The clear_idmap_cache job and the calls that start it.  An update is     *)
(* taken one outside call at a time, so that jobs and other calls run in    *)
(* between; a job is taken one step of clear_idmap_cache at a time.         *)

\* a variant that lets two jobs wait for the lock
clear_idmap_cache_job_queue_two == [lock |-> "clear_idmap_cache", lock_queue_size |-> 2]

\* @job(lock='clear_idmap_cache', lock_queue_size=1)
clear_idmap_cache_job == [lock |-> "clear_idmap_cache", lock_queue_size |-> 1]

\* the body of clear_idmap_cache, one outside call after the other
clear_idmap_cache_steps ==
    <<"service.started cifs", "service.stop idmap", "tdb.wipe", "flush_gencache",
      "service.start idmap", "service.start cifs">>

\* a job that was queued and has not started
NewJob == [state |-> "WAITING", pos |-> 1, smb_started |-> FALSE]

\* the jobs that wait for the lock, and those that hold it
Queued == {j \in DOMAIN jobs : jobs[j].state = "WAITING"}

Running == {j \in DOMAIN jobs : jobs[j].state = "RUNNING"}

\* the job queue, asked for a new job: with lock_queue_size jobs waiting for the
\* lock already, the call is given the last of them and no job is added
submit_coalesces == Cardinality(Queued) >= clear_idmap_cache_job.lock_queue_size

submitted_job ==
    IF submit_coalesces THEN CHOOSE j \in Queued : \A k \in Queued : k <= j
    ELSE Len(jobs) + 1

jobs_after_submit == IF submit_coalesces THEN jobs ELSE Append(jobs, NewJob)

\* Job.wait() returns once the job has ended, with a result or with an error
job_finished(j) == jobs[j].state \in {"SUCCESS", "FAILED"}

\* the queue starts the oldest waiting job when no job holds its lock
JobStart ==
    \E j \in Queued :
        /\ clear_idmap_cache_job.lock = "None" \/ Running = {}
        /\ \A k \in Queued : j <= k
        /\ jobs' = [jobs EXCEPT ![j].state = "RUNNING"]
        /\ UNCHANGED <<store, ds_state, secrets, last, calls, inflight, services, registry, tdb>>

\* one outside call of clear_idmap_cache (lines 426-445); an error of tdb.wipe is
\* logged and the job goes on
JobStep ==
    \E j \in Running :
        LET job == jobs[j]
            step == clear_idmap_cache_steps[job.pos]
            ends == job.pos = Len(clear_idmap_cache_steps)
            next == [job EXCEPT !.pos = IF ends THEN @ ELSE @ + 1,
                                !.state = IF ends THEN "SUCCESS" ELSE @]
        IN /\ jobs' = [jobs EXCEPT ![j] =
                        IF step = "service.started cifs"
                        THEN [next EXCEPT !.smb_started = services.cifs]
                        ELSE next]
           /\ services' =
                CASE step = "service.stop idmap" -> [services EXCEPT !.idmap = FALSE]
                  [] step = "service.start idmap" -> [services EXCEPT !.idmap = TRUE]
                  [] step = "service.start cifs" /\ job.smb_started ->
                        [services EXCEPT !.cifs = TRUE]
                  [] OTHER -> services
           /\ UNCHANGED <<store, ds_state, secrets, last, calls, inflight, registry, tdb>>

\* flush_gencache raises CallError (line 416): the job ends there
JobFails ==
    \E j \in Running :
        /\ clear_idmap_cache_steps[jobs[j].pos] = "flush_gencache"
        /\ jobs' = [jobs EXCEPT ![j].state = "FAILED"]
        /\ UNCHANGED <<store, ds_state, secrets, last, calls, inflight, services, registry, tdb>>

\* idmap.clear_idmap_cache called from outside: the caller is given the job
CallClear ==
    /\ calls < MaxCalls
    /\ calls' = calls + 1
    /\ jobs' = jobs_after_submit
    /\ last' = [NoCall EXCEPT !.op = "clear_idmap_cache", !.id = submitted_job,
                              !.status = "ok"]
    /\ UNCHANGED <<store, ds_state, secrets, inflight, services, registry, tdb>>

JobPatches == {[range_high |-> 150000000], [range_high |-> 95000000]}

\* idmap.update up to verrors.check(): the call goes on if nothing was raised
BeginUpdate(p) ==
    \E id_ \in DOMAIN store, data \in JobPatches :
        LET o == do_update(id_, data, DomainInfo("None", <<>>), TRUE)
        IN /\ calls < MaxCalls
           /\ inflight[p] = Idle
           /\ o.status = "ok"
           /\ calls' = calls + 1
           /\ inflight' = [inflight EXCEPT ![p] =
                    [Idle EXCEPT !.op = "update", !.id = id_, !.data = data,
                                 !.row = o.table[id_], !.todo = o.effects]]
           /\ UNCHANGED <<store, ds_state, secrets, last, jobs, services, registry, tdb>>

\* the next outside call of an update in flight
UpdateStep(p) ==
    LET call == inflight[p]
        step == Head(call.todo)
    IN /\ call.op = "update"
       /\ call.todo # <<>>
       /\ step = "cache_job.wait" => call.job \in DOMAIN jobs /\ job_finished(call.job)
       /\ store' = IF step = "datastore.update"
                   THEN [store EXCEPT ![call.id] = call.row]
                   ELSE store
       /\ jobs' = IF step = "idmap.clear_idmap_cache" THEN jobs_after_submit ELSE jobs
       /\ inflight' = [inflight EXCEPT ![p] =
                [call EXCEPT !.todo = Tail(@), !.done = Append(@, step),
                             !.job = IF step = "idmap.clear_idmap_cache"
                                     THEN submitted_job ELSE @]]
       /\ UNCHANGED <<ds_state, secrets, last, calls, services, registry, tdb>>

\* the update returns to its caller
UpdateReturn(p) ==
    LET call == inflight[p]
    IN /\ call.op = "update"
       /\ call.todo = <<>>
       /\ last' = [NoCall EXCEPT !.op = "update", !.id = call.id, !.data = call.data,
                                 !.status = "ok", !.effects = call.done]
       /\ inflight' = [inflight EXCEPT ![p] = Idle]
       /\ UNCHANGED <<store, ds_state, secrets, calls, jobs, services, registry, tdb>>

InitJobs ==
    /\ store = InitialStore
    /\ ds_state = [activedirectory |-> "HEALTHY", ldap |-> "HEALTHY"]
    /\ secrets = {}
    /\ last = NoCall
    /\ calls = 0
    /\ inflight = [p \in Clients |-> Idle]
    /\ jobs = <<>>
    /\ services \in [idmap : BOOLEAN, cifs : BOOLEAN]
    /\ registry = EmptyDict
    /\ tdb = NoTdb

NextJobs ==
    \/ CallClear
    \/ \E p \in Clients : BeginUpdate(p)
    \/ \E p \in Clients : UpdateStep(p)
    \/ \E p \in Clients : UpdateReturn(p)
    \/ JobStart
    \/ JobStep
    \/ JobFails

SpecJobs == InitJobs /\ [][NextJobs]_vars

----------------------------------------------------------------------------
(* Creates of two clients at the same time.  do_create awaits other calls   *)
(* between its checks and datastore.insert (query, get_state, insert), and  *)
(* takes no lock, so another create may run in between; a create is taken   *)
(* in two steps, up to verrors.check() and from there on.                   *)

ConcurrentCreates ==
    {CreateData(n, r, "RID", EmptyDict) :
        n \in UserNames,
        r \in {<<1000000, 1100000>>, <<1050000, 1150000>>, <<1200000, 1300000>>}}

\* do_create up to verrors.check() (lines 779-804), on the table as it is now: the
\* call raises, or goes on with the record it has validated
BeginCreate(p) ==
    \E data \in ConcurrentCreates :
        LET o == do_create(data, DomainInfo("None", <<>>), TRUE)
        IN /\ calls < MaxCalls
           /\ inflight[p] = Idle
           /\ calls' = calls + 1
           /\ IF o.status = "ok"
              THEN /\ inflight' = [inflight EXCEPT ![p] =
                            [Idle EXCEPT !.op = "create", !.data = data, !.row = data]]
                   /\ UNCHANGED last
              ELSE /\ last' = [NoCall EXCEPT !.op = "create", !.data = data,
                                             !.status = o.status, !.verrors = o.verrors,
                                             !.effects = o.effects]
                   /\ UNCHANGED inflight
           /\ UNCHANGED <<store, ds_state, secrets, jobs, services, registry, tdb>>

\* do_create from line 806 on, on the table as it is by then: the insert, the
\* synchronization, the return
FinishCreate(p) ==
    LET call == inflight[p]
        o == create_persist(call.row, TRUE)
    IN /\ call.op = "create"
       /\ store' = o.table
       /\ secrets' = o.secret_store
       /\ last' = [NoCall EXCEPT !.op = "create", !.id = Written(o, NewId),
                                 !.data = call.data, !.status = o.status,
                                 !.verrors = o.verrors, !.effects = o.effects]
       /\ inflight' = [inflight EXCEPT ![p] = Idle]
       /\ UNCHANGED <<ds_state, calls, jobs, services, registry, tdb>>

InitCreates ==
    /\ store = InitialStore
    /\ ds_state \in [activedirectory : {"HEALTHY", "DISABLED"}, ldap : {"HEALTHY", "DISABLED"}]
    /\ secrets = {}
    /\ last = NoCall
    /\ calls = 0
    /\ Quiet

NextCreates ==
    \/ \E p \in Clients : BeginCreate(p)
    \/ \E p \in Clients : FinishCreate(p)

SpecCreates == InitCreates /\ [][NextCreates]_vars

----------------------------------------------------------------------------
(* The winbind client: opening a session, and the bulk conversions          *)

\* the error codes a WBCError of WBClient() carries here
WBCErrors == {"WBC_ERR_WINBIND_NOT_AVAILABLE", "WBC_ERR_AUTH_ERROR"}

\* the result of __wbclient_ctx(): the client or the exception, and the calls made
Ctx(status, error, effects) == [status |-> status, error |-> error, effects |-> effects]

\* a variant that starts the daemon after any WBCError
start_and_retry_any_error(retry, error_code) == retry

\* the WBCError is not raised again: the daemon is started and the open retried
start_and_retry(retry, error_code) ==
    ~(~retry \/ error_code # "WBC_ERR_WINBIND_NOT_AVAILABLE")

\* IdmapDomainService.__wbclient_ctx(retry).  env is what its calls meet: the
\* outcome env.opens[n] of the n-th WBClient(), the answer of
\* systemdataset.sysdataset_path, and the outcome of service.start
RECURSIVE wbclient_ctx(_, _, _)
wbclient_ctx(retry, env, n) ==
    LET opened == env.opens[n]
    IN IF opened = "ok" THEN Ctx("ok", "None", <<"WBClient">>)
       ELSE IF ~start_and_retry(retry, opened)
       THEN Ctx("WBCError", opened, <<"WBClient">>)
       ELSE IF ~Truthy(env.sysdataset_path)
       THEN Ctx("CallError", "EAGAIN", <<"WBClient", "systemdataset.sysdataset_path">>)
       ELSE IF env.start # "ok"
       THEN Ctx("CallError", env.start,
                <<"WBClient", "systemdataset.sysdataset_path", "service.start idmap">>)
       ELSE LET again == wbclient_ctx(FALSE, env, n + 1)
            IN [again EXCEPT !.effects =
                   <<"WBClient", "systemdataset.sysdataset_path", "service.start idmap">> \o @]

\* service.start returned: the daemon runs
started(env, ctx) ==
    \E i \in DOMAIN ctx.effects : ctx.effects[i] = "service.start idmap" /\ env.start = "ok"

\* what winbindd knows: the entries it resolves, by SID and by unix id
WinbindEntries ==
    {[sid |-> "S-1-5-32-544", id_type |-> "GID", id |-> 90000001, domain |-> "BUILTIN",
      name |-> "Administrators", sid_type |-> "SID_ALIAS"],
     [sid |-> "S-1-5-21-1-500", id_type |-> "UID", id |-> 100000500, domain |-> "CORP",
      name |-> "admin", sid_type |-> "SID_USER"]}

\* the elements of a list
Elements(list) == {list[i] : i \in DOMAIN list}

\* WBClient.sids_to_users_and_groups(sidlist): one request: the SIDs winbindd
\* resolves are mapped, the others are unmapped
sids_to_users_and_groups(sidlist) ==
    LET known == {sid \in Elements(sidlist) : \E e \in WinbindEntries : e.sid = sid}
    IN [mapped |-> [sid \in known |-> CHOOSE e \in WinbindEntries : e.sid = sid],
        unmapped |-> [sid \in Elements(sidlist) \ known |-> [sid |-> sid]]]

\* WBClient.users_and_groups_to_sids(payload): the results are keyed by
\* "UID:<id>" or "GID:<id>", here the pair <<id_type, id>>
users_and_groups_to_sids(payload) ==
    LET keys == {<<e.id_type, e.id>> : e \in Elements(payload)}
        known == {k \in keys : \E e \in WinbindEntries : <<e.id_type, e.id>> = k}
    IN [mapped |-> [k \in known |-> CHOOSE e \in WinbindEntries : <<e.id_type, e.id>> = k],
        unmapped |-> [k \in keys \ known |-> [id_type |-> k[1], id |-> k[2]]]]

\* IDType.parse_wbc_id_type
parse_wbc_id_type == [UID |-> "USER", GID |-> "GROUP", BOTH |-> "BOTH"]

\* IDType[name].wbc_str()
wbc_str == [USER |-> "UID", GROUP |-> "GID", BOTH |-> "BOTH"]

\* sid_type['parsed'][4:]
sid_type_name == [SID_USER |-> "USER", SID_DOM_GROUP |-> "DOM_GROUP", SID_ALIAS |-> "ALIAS"]

\* the result of a conversion call: what it returns or raises, the calls made,
\* and whether it started the daemon
Converted(status, result, ctx, env) ==
    [status |-> status, result |-> result, error |-> ctx.error, effects |-> ctx.effects,
     started |-> started(env, ctx)]

\* a variant that returns the mapped entries only
sids_result_mapped_only(results) ==
    [mapped |-> [sid \in DOMAIN results.mapped |->
                    [type |-> parse_wbc_id_type[results.mapped[sid].id_type],
                     id |-> results.mapped[sid].id,
                     name |-> results.mapped[sid].domain \o "\\" \o results.mapped[sid].name]],
     unmapped |-> EmptyDict]

\* what convert_sids returns for the results of the client
sids_result(results) ==
    [mapped |-> [sid \in DOMAIN results.mapped |->
                    [type |-> parse_wbc_id_type[results.mapped[sid].id_type],
                     id |-> results.mapped[sid].id,
                     name |-> results.mapped[sid].domain \o "\\" \o results.mapped[sid].name]],
     unmapped |-> results.unmapped]

\* idmap.convert_sids(sidlist)
convert_sids(sidlist, env) ==
    IF sidlist = <<>>
    THEN Converted("CallError", EmptyDict, Ctx("CallError", "EINVAL", <<>>), env)
    ELSE LET ctx == wbclient_ctx(TRUE, env, 1)
         IN IF ctx.status # "ok"
            THEN Converted("CallError", EmptyDict, ctx, env)
            ELSE Converted("ok", sids_result(sids_to_users_and_groups(sidlist)), ctx, env)

\* what convert_unixids returns for the results of the client
unixids_result(results) ==
    [mapped |-> [k \in DOMAIN results.mapped |->
                    [type |-> sid_type_name[results.mapped[k].sid_type],
                     id |-> results.mapped[k].id,
                     sid |-> results.mapped[k].sid,
                     name |-> results.mapped[k].domain \o "\\" \o results.mapped[k].name]],
     unmapped |-> [k \in DOMAIN results.unmapped |->
                    [id_type |-> IF k[1] = "GID" THEN "GROUP" ELSE "USER",
                     id |-> results.unmapped[k].id]]]

\* the payload convert_unixids sends; id_type defaults to GROUP
unixids_payload(id_list) ==
    [i \in DOMAIN id_list |->
        [id_type |-> wbc_str[IF HasKey(id_list[i], "id_type") THEN id_list[i].id_type
                             ELSE "GROUP"],
         id |-> Get(id_list[i], "id")]]

\* idmap.convert_unixids(id_list)
convert_unixids(id_list, env) ==
    IF \E i \in DOMAIN id_list :
          HasKey(id_list[i], "id_type") /\ id_list[i].id_type \notin DOMAIN wbc_str
    THEN Converted("KeyError", EmptyDict, Ctx("KeyError", "None", <<>>), env)
    ELSE LET ctx == wbclient_ctx(TRUE, env, 1)
         IN IF ctx.status # "ok"
            THEN Converted("CallError", EmptyDict, ctx, env)
            ELSE Converted("ok",
                           unixids_result(users_and_groups_to_sids(unixids_payload(id_list))),
                           ctx, env)

----------------------------------------------------------------------------
(* The conversion calls and their arguments *)

MaxList == 2

\* SIDs winbindd resolves, and one it does not
SidChoices == {"S-1-5-32-544", "S-1-5-21-1-500", "S-1-5-99-1"}

\* unix ids winbindd resolves, one it does not, and one without id_type
UnixidChoices ==
    {[id_type |-> "GROUP", id |-> 90000001], [id_type |-> "USER", id |-> 100000500],
     [id_type |-> "USER", id |-> 4242], [id |-> 4243], [id_type |-> "GROUPS", id |-> 1]}

\* WBClient() fails with WBC_ERR_WINBIND_NOT_AVAILABLE while the daemon is stopped
Envs ==
    {[opens |-> opens, sysdataset_path |-> path, start |-> start] :
        opens \in {o \in [1..2 -> {"ok"} \cup WBCErrors] :
                      ~services.idmap => o[1] = "WBC_ERR_WINBIND_NOT_AVAILABLE"},
        path \in {"/var/db/system_samba4", "None"},
        start \in {"ok", "CallError"}}

Converts(op, args, env, r) ==
    /\ calls < MaxCalls
    /\ calls' = calls + 1
    /\ last' = [NoCall EXCEPT !.op = op, !.data = [args |-> args, env |-> env],
                              !.status = r.status, !.effects = r.effects,
                              !.result = r.result, !.error = r.error]
    /\ services' = [services EXCEPT !.idmap = @ \/ r.started]
    /\ UNCHANGED <<store, ds_state, secrets, inflight, jobs, registry, tdb>>

ConvertSids ==
    \E sidlist \in SeqsUpTo(SidChoices, MaxList), env \in Envs :
        Converts("convert_sids", sidlist, env, convert_sids(sidlist, env))

ConvertUnixids ==
    \E id_list \in SeqsUpTo(UnixidChoices, MaxList), env \in Envs :
        Converts("convert_unixids", id_list, env, convert_unixids(id_list, env))

InitWinbind ==
    /\ store = InitialStore
    /\ ds_state = [activedirectory |-> "HEALTHY", ldap |-> "HEALTHY"]
    /\ secrets = {}
    /\ last = NoCall
    /\ calls = 0
    /\ inflight = [p \in Clients |-> Idle]
    /\ jobs = <<>>
    /\ services \in [idmap : BOOLEAN, cifs : {TRUE}]
    /\ registry = EmptyDict
    /\ tdb = NoTdb

NextWinbind == ConvertSids \/ ConvertUnixids

SpecWinbind == InitWinbind /\ [][NextWinbind]_vars

----------------------------------------------------------------------------
(* The daemon configuration: rendering, the diff against the registry, and  *)
(* synchronize.  A parameter value is <<"raw", v>> or <<"parsed", v>>.      *)

\* ldap.config
ldap_config == [basedn |-> "dc=x", uri_list |-> "ldap://x"]

\* str.lower() of the backend names
lower ==
    [AD |-> "ad", AUTORID |-> "autorid", LDAP |-> "ldap", NSS |-> "nss",
     RFC2307 |-> "rfc2307", RID |-> "rid", TDB |-> "tdb"]

\* a directory service whose domain idmap_to_smbconf writes
conf_enabled(state) == state \in {"HEALTHY", "JOINING", "FAULTED"}

\* the rows in the order idmap_to_smbconf goes through them
RECURSIVE in_order(_)
in_order(table) ==
    IF DOMAIN table = {} THEN <<>>
    ELSE LET first == CHOOSE i \in DOMAIN table : \A j \in DOMAIN table : i <= j
         IN <<table[first]>> \o in_order([i \in (DOMAIN table) \ {first} |-> table[i]])

\* the domain a row is written under, "None" for a row that is left out
conf_domain(i, idmap, ds) ==
    LET ad_idmap == CHOOSE x \in Elements(idmap) : x.name = "DS_TYPE_ACTIVEDIRECTORY"
    IN IF i.name = "DS_TYPE_DEFAULT_DOMAIN"
       THEN IF conf_enabled(ds.activedirectory) /\ ad_idmap.idmap_backend = "AUTORID"
            THEN "None"
            ELSE "*"
       ELSE IF i.name = "DS_TYPE_ACTIVEDIRECTORY"
       THEN IF ~conf_enabled(ds.activedirectory) THEN "None"
            ELSE IF i.idmap_backend = "AUTORID" THEN "*" ELSE "WORKGROUP"
       ELSE IF i.name = "DS_TYPE_LDAP"
       THEN IF ~conf_enabled(ds.ldap) THEN "None" ELSE "WORKGROUP"
       ELSE i.name

\* the LDAP domain with the LDAP backend takes its parameters from ldap.config
from_ldap_form(i) == i.name = "DS_TYPE_LDAP" /\ i.idmap_backend = "LDAP"

\* the value written for the option k of the row i
conf_value(i, k) ==
    IF k = "ldap_server" THEN (IF i.options[k] = "AD" THEN "ad" ELSE "stand-alone")
    ELSE IF k = "ldap_url"
    THEN (IF Get(i.options, "ssl") = "ON" THEN "ldaps://" ELSE "ldap://") \o i.options[k]
    ELSE i.options[k]

\* the parameters written for the row i under the domain it is written under
conf_entries(i, domain) ==
    LET idmap_prefix == "idmap config " \o domain \o " :"
        range == ToString(i.range_low) \o " - " \o ToString(i.range_high)
        head == (idmap_prefix \o " backend" :> <<"raw", lower[i.idmap_backend]>>)
                @@ (idmap_prefix \o " range" :> <<"raw", range>>)
        param(k) == idmap_prefix \o " " \o (IF k = "cn_realm" THEN "realm" ELSE k)
        ks == (DOMAIN i.options) \ {"ssl"}
    IN IF from_ldap_form(i)
       THEN Merge(head,
                  (idmap_prefix \o " ldap_base_dn" :> <<"raw", ldap_config.basedn>>)
                  @@ (idmap_prefix \o " ldap_url" :> <<"raw", ldap_config.uri_list>>))
       ELSE Merge(head,
                  [p \in {param(k) : k \in ks} |->
                      <<"parsed", conf_value(i, CHOOSE k \in ks : param(k) = p)>>])

\* rv after the loop over the rows from the n-th on
RECURSIVE conf_from(_, _, _, _)
conf_from(rv, idmap, ds, n) ==
    IF n > Len(idmap) THEN rv
    ELSE LET domain == conf_domain(idmap[n], idmap, ds)
         IN conf_from(IF domain = "None" THEN rv ELSE Merge(rv, conf_entries(idmap[n], domain)),
                      idmap, ds, n + 1)

\* a row that is written has an ssl option other than STARTTLS
disable_ldap_starttls(idmap, ds) ==
    \E i \in Elements(idmap) :
        /\ conf_domain(i, idmap, ds) # "None" /\ ~from_ldap_form(i)
        /\ HasKey(i.options, "ssl") /\ i.options.ssl # "STARTTLS"

\* IdmapDomainService.idmap_to_smbconf(data)
idmap_to_smbconf(idmap, ds) ==
    LET rv == conf_from(EmptyDict, idmap, ds, 1)
    IN IF conf_enabled(ds.activedirectory)
       THEN Merge(rv, "ldap ssl" :>
                        <<"parsed", IF disable_ldap_starttls(idmap, ds) THEN "off"
                                    ELSE "start tls">>)
       ELSE rv

\* a variant that reports every common key as modified
diff_conf_and_registry_all_common(data, idmaps) ==
    LET r == idmaps
        s_keys == DOMAIN data
        r_keys == DOMAIN r
        intersect == s_keys \cap r_keys
    IN [added |-> [x \in s_keys \ r_keys |-> data[x]],
        removed |-> [x \in r_keys \ s_keys |-> r[x]],
        modified |-> [x \in intersect |-> data[x]]]

\* IdmapDomainService.diff_conf_and_registry(data, idmaps)
diff_conf_and_registry(data, idmaps) ==
    LET r == idmaps
        s_keys == DOMAIN data
        r_keys == DOMAIN r
        intersect == s_keys \cap r_keys
    IN [added |-> [x \in s_keys \ r_keys |-> data[x]],
        removed |-> [x \in r_keys \ s_keys |-> r[x]],
        modified |-> [x \in {y \in intersect : data[y] # r[y]} |-> data[x]]]

\* sharing.smb.apply_conf_diff('GLOBAL', diff): the added and the modified
\* parameters are set, the removed ones deleted, the others are left alone
apply_conf_diff(live, diff) ==
    LET set == Merge(diff.added, diff.modified)
    IN Merge([x \in (DOMAIN live) \ (DOMAIN diff.removed) |-> live[x]], set)

\* the diff synchronize computes for the table, and the registry it leaves
synchronized(table, ds, live) ==
    LET idmaps == idmap_to_smbconf(in_order(table), ds)
        diff == diff_conf_and_registry(idmaps, live)
    IN [data |-> idmaps, idmaps |-> live, diff |-> diff, live |-> apply_conf_diff(live, diff)]

----------------------------------------------------------------------------
(* Synchronization against the registry: the calls and their arguments *)

\* small configurations, as the desired one and as the live one
ConfChoices ==
    LET keys == {"idmap config * : backend", "ldap ssl"}
        values == {<<"raw", "tdb">>, <<"parsed", "off">>}
    IN UNION {[ks -> values] : ks \in SUBSET keys}

\* registries that were left behind: none, one of an older table
StaleRegistries ==
    {EmptyDict,
     ("idmap config * : backend" :> <<"raw", "tdb">>)
     @@ ("idmap config * : range" :> <<"raw", "90000001 - 90000100">>)
     @@ ("idmap config OLD : backend" :> <<"raw", "rid">>)}

\* idmap.diff_conf_and_registry
CallDiff ==
    \E data \in ConfChoices, idmaps \in ConfChoices :
        /\ calls < MaxCalls
        /\ calls' = calls + 1
        /\ last' = [NoCall EXCEPT !.op = "diff_conf_and_registry",
                                  !.data = [data |-> data, idmaps |-> idmaps],
                                  !.status = "ok",
                                  !.result = diff_conf_and_registry(data, idmaps)]
        /\ UNCHANGED <<store, ds_state, secrets, inflight, jobs, services, registry, tdb>>

\* idmap.synchronize
Synchronize ==
    \E restart \in BOOLEAN :
        LET sync == synchronized(store, ds_state, registry)
        IN /\ calls < MaxCalls
           /\ calls' = calls + 1
           /\ registry' = sync.live
           /\ services' = [services EXCEPT !.idmap = @ \/ restart]
           /\ last' = [NoCall EXCEPT !.op = "synchronize",
                                     !.data = [data |-> sync.data, idmaps |-> sync.idmaps],
                                     !.status = "ok",
                                     !.effects = synchronize(restart),
                                     !.result = sync.diff]
           /\ UNCHANGED <<store, ds_state, secrets, inflight, jobs, tdb>>

\* a create or a delete, with the registry its synchronize leaves
Synced(op, id_, data, o) ==
    /\ calls < MaxCalls
    /\ calls' = calls + 1
    /\ store' = o.table
    /\ secrets' = o.secret_store
    /\ registry' = IF o.status = "ok" THEN synchronized(o.table, ds_state, registry).live
                   ELSE registry
    /\ last' = [NoCall EXCEPT !.op = op, !.id = id_, !.data = data, !.status = o.status,
                              !.verrors = o.verrors, !.effects = o.effects]
    /\ UNCHANGED <<ds_state, inflight, jobs, services, tdb>>

SyncCreates ==
    {CreateData("CORP", <<1000000, 1100000>>, "RID", EmptyDict),
     CreateData("corp", <<1100000, 1200000>>, "RFC2307",
                [ldap_user_dn |-> "cn=y", ldap_server |-> "STANDALONE",
                 ldap_url |-> "ldap.y", cn_realm |-> "Y", ssl |-> "ON"])}

CreateSynced ==
    \E data \in SyncCreates :
        Synced("create", NewId, data, do_create(data, DomainInfo("None", <<>>), TRUE))

DeleteSynced ==
    \E id_ \in DOMAIN store : Synced("delete", id_, EmptyDict, do_delete(id_))

InitSync ==
    /\ store = InitialStore
    /\ ds_state \in [activedirectory : DSStatus, ldap : {"HEALTHY", "DISABLED"}]
    /\ secrets = {}
    /\ last = NoCall
    /\ calls = 0
    /\ inflight = [p \in Clients |-> Idle]
    /\ jobs = <<>>
    /\ services = [idmap |-> TRUE, cifs |-> TRUE]
    /\ registry \in StaleRegistries
                    \cup {idmap_to_smbconf(in_order(InitialStore), ds_state)}
    /\ tdb = NoTdb

NextSync == CallDiff \/ Synchronize \/ CreateSynced \/ DeleteSynced

SpecSync == InitSync /\ [][NextSync]_vars

----------------------------------------------------------------------------
(* The cache table winbindd_idmap.tdb and its maintenance                   *)
(* (plugins/smb_/groupmap.py).  A key or a value of the table is a record:  *)
(* b'GID 5\x00' is TdbGid(5), b'S-1-1-0\x00' is TdbSid("S-1-1-0"), a packed *)
(* integer is TdbInt(n).  The variable tdb holds whether the file exists,    *)
(* and the table.                                                           *)

TdbEntry(kind, name, n) == [kind |-> kind, name |-> name, n |-> n]

TdbGid(gid) == TdbEntry("GID", "", gid)

TdbSid(sid) == TdbEntry("SID", sid, 0)

TdbInt(val) == TdbEntry("INT", "", val)

TdbKey(name) == TdbEntry("KEY", name, 0)

WINBINDD_AUTO_ALLOCATED == <<"S-1-5-32-544", "S-1-5-32-545", "S-1-5-32-546">>

WINBINDD_WELL_KNOWN_PADDING == 100

WellKnown(name, sid, set) == [name |-> name, sid |-> sid, set |-> set]

WELL_KNOWN_SIDS ==
    <<WellKnown("NULL", "S-1-0-0", FALSE),
      WellKnown("EVERYONE", "S-1-1-0", TRUE),
      WellKnown("LOCAL", "S-1-2-0", TRUE),
      WellKnown("CONSOLE_LOGON", "S-1-2-1", TRUE),
      WellKnown("CREATOR_OWNER", "S-1-3-0", TRUE),
      WellKnown("CREATOR_GROUP", "S-1-3-1", TRUE),
      WellKnown("OWNER_RIGHTS", "S-1-3-4", TRUE),
      WellKnown("DIALUP", "S-1-5-1", TRUE),
      WellKnown("NETWORK", "S-1-5-2", TRUE),
      WellKnown("BATCH", "S-1-5-3", TRUE),
      WellKnown("INTERACTIVE", "S-1-5-4", TRUE),
      WellKnown("SERVICE", "S-1-5-6", TRUE),
      WellKnown("ANONYMOUS", "S-1-5-7", TRUE),
      WellKnown("AUTHENTICATED_USERS", "S-1-5-11", TRUE),
      WellKnown("TERMINAL_SERVER_USER", "S-1-5-13", TRUE),
      WellKnown("REMOTE_AUTHENTICATED_LOGON", "S-1-5-14", TRUE),
      WellKnown("LOCAL_SYSTEM", "S-1-5-18", TRUE),
      WellKnown("LOCAL_SERVICE", "S-1-5-19", TRUE),
      WellKnown("NETWORK_SERVICE", "S-1-5-20", TRUE)>>

\* idmap.builtins: none unless the backend of the domain '*' is tdb
builtins(idmap_backend, low_range) ==
    IF idmap_backend # "tdb" THEN <<>>
    ELSE [idx \in DOMAIN WELL_KNOWN_SIDS |->
            [name |-> WELL_KNOWN_SIDS[idx].name, sid |-> WELL_KNOWN_SIDS[idx].sid,
             set |-> WELL_KNOWN_SIDS[idx].set, id |-> idx - 1,
             gid |-> low_range + 3 + (idx - 1)]]

\* tdb_handle.store(key, val)
tdb_store(table, key, val) == Merge(table, key :> val)

\* the table initialize_idmap_tdb leaves when its n-th store fails: the keys
\* stored before it; every store is done when n exceeds their number
initialize_idmap_tdb(low_range, n) ==
    LET stores == <<<<TdbKey("IDMAP_VERSION"), TdbInt(2)>>,
                    <<TdbKey("USER HWM"), TdbInt(low_range)>>,
                    <<TdbKey("GROUP HWM"), TdbInt(low_range)>>>>
    IN [i \in {stores[j][1] : j \in {j \in DOMAIN stores : j < n}} |->
           (CHOOSE s \in Elements(stores) : s[1] = i)[2]]

\* lines 244-250: the group high-water mark is put above the static ids
bump_hwm(table, low_range, len_builtins) ==
    LET len_wb_groups == Len(WINBINDD_AUTO_ALLOCATED)
        hwm == table[TdbKey("GROUP HWM")].n
    IN IF hwm < low_range + len_wb_groups + len_builtins
       THEN tdb_store(table, TdbKey("GROUP HWM"),
                      TdbInt(low_range + len_wb_groups + len_builtins
                             + WINBINDD_WELL_KNOWN_PADDING))
       ELSE table

\* lines 252-257: the GID keys below the auto-allocated groups go, and the
\* keys they point to
remove_low_gids(table, low_range) ==
    LET low == {key \in DOMAIN table :
                   key.kind = "GID" /\ key.n < low_range + Len(WINBINDD_AUTO_ALLOCATED)}
    IN Without(table, low \cup {table[key] : key \in low})

\* lines 259-276 for one entry of builtins
set_builtin(table, entry) ==
    LET sid_key == TdbSid(entry.sid)
        present == sid_key \in DOMAIN table
    IN IF ~entry.set \/ (present /\ table[sid_key] = TdbGid(entry.gid)) THEN table
       ELSE Merge(IF present THEN Without(table, {sid_key, table[sid_key]}) ELSE table,
                  (TdbGid(entry.gid) :> sid_key) @@ (sid_key :> TdbGid(entry.gid)))

RECURSIVE set_builtins(_, _, _)
set_builtins(table, entries, n) ==
    IF n > Len(entries) THEN table
    ELSE set_builtins(set_builtin(table, entries[n]), entries, n + 1)

\* a variant of the cancel that keeps what the transaction had written
transaction_cancel_keeps(before, written) == written

\* tdb_handle.transaction_cancel(): the table is as it was at transaction_start
transaction_cancel(before, written) == before

\* the stages of the transaction, in order; an exception is raised in the
\* stage 'fail' before the stage has written anything
TdbStages == <<"hwm", "keys", "builtins", "commit">>

StageOf(name) == CHOOSE n \in DOMAIN TdbStages : TdbStages[n] = name

\* what validate_groupmap_hwm made of the table, what it logged and returned
Maintained(table, must_reload, logged, effects) ==
    [tdb |-> [file |-> TRUE, table |-> table], must_reload |-> must_reload, logged |-> logged,
     effects |-> effects
                 \o (IF must_reload THEN <<"idmap.snapshot_samba4_dataset">> ELSE <<>>)]

\* lines 242-285 on an open table; fail is the stage that raises, or "none"
transaction(table, low_range, entries, fail) ==
    LET raises(stage) == fail = stage \/ (stage = "hwm" /\ TdbKey("GROUP HWM") \notin DOMAIN table)
        failed == IF \E n \in DOMAIN TdbStages : raises(TdbStages[n])
                  THEN CHOOSE n \in DOMAIN TdbStages :
                          /\ raises(TdbStages[n])
                          /\ \A m \in 1..(n - 1) : ~raises(TdbStages[m])
                  ELSE Len(TdbStages) + 1
        t1 == IF failed > StageOf("hwm") THEN bump_hwm(table, low_range, Len(entries))
              ELSE table
        t2 == IF failed > StageOf("keys") THEN remove_low_gids(t1, low_range) ELSE t1
        t3 == IF failed > StageOf("builtins") THEN set_builtins(t2, entries, 1) ELSE t2
        must_reload == t3 # table
    IN IF failed > Len(TdbStages)
       THEN Maintained(t3, must_reload, <<>>,
                       <<"transaction_start", "transaction_commit", "close">>)
       ELSE Maintained(transaction_cancel(table, t3), must_reload,
                       <<"TDB maintenace failed">>,
                       <<"transaction_start", "transaction_cancel", "close">>)

\* SMBService.validate_groupmap_hwm(low_range).  env.init is the store of
\* initialize_idmap_tdb that fails (0: the file cannot be created, 4: none),
\* env.fail the stage of the transaction that raises
validate_groupmap_hwm(low_range, found, idmap_backend, env) ==
    LET entries == builtins(idmap_backend, low_range)
    IN IF found.file
       THEN transaction(found.table, low_range, entries, env.fail)
       ELSE IF env.init = 0
       THEN [Maintained(EmptyDict, FALSE, <<"Failed to create winbindd_idmap.tdb">>, <<>>)
                EXCEPT !.tdb = NoTdb]
       ELSE IF env.init <= 3
       THEN Maintained(initialize_idmap_tdb(low_range, env.init), FALSE,
                       <<"Failed to initialize winbindd_idmap.tdb">>, <<"close">>)
       ELSE transaction(initialize_idmap_tdb(low_range, env.init), low_range, entries,
                        env.fail)

----------------------------------------------------------------------------
(* The maintenance calls and the tables they find *)

\* the low end of the range of the domain '*'
DefaultLow == (CHOOSE x \in query : x.name = "DS_TYPE_DEFAULT_DOMAIN").range_low

\* smb.getparm('idmap config * : backend')
DefaultBackend ==
    IF HasKey(registry, "idmap config * : backend")
    THEN registry["idmap config * : backend"][2]
    ELSE "None"

\* a table with both marks at hwm and the mappings given as <<id key, sid>>
TdbWith(hwm, mappings) ==
    LET marks == (TdbKey("IDMAP_VERSION") :> TdbInt(2))
                 @@ (TdbKey("USER HWM") :> TdbInt(hwm[1]))
                 @@ (TdbKey("GROUP HWM") :> TdbInt(hwm[2]))
    IN Merge(marks,
             [k \in {m[1] : m \in mappings} \cup {TdbSid(m[2]) : m \in mappings} |->
                 IF k.kind = "SID" THEN (CHOOSE m \in mappings : m[2] = k.name)[1]
                 ELSE TdbSid((CHOOSE m \in mappings : m[1] = k)[2])])

\* the tables found: none (no file), one with marks above the static ids and no
\* mappings, and one with mappings among the static ids
TdbChoices(low_range) ==
    {EmptyDict,
     TdbWith(<<low_range + 500, low_range + 500>>, {}),
     TdbWith(<<low_range + 10, low_range + 500>>,
             {<<TdbGid(low_range + 1), "S-1-5-32-545">>,
              <<TdbGid(low_range + 4), "S-1-5-21-9-1000">>,
              <<TdbGid(low_range + 600), "S-1-1-0">>,
              <<TdbEntry("UID", "", low_range + 2), "S-1-5-21-9-500">>})}

TdbEnvs == [init : 0..4, fail : {"none"} \cup Elements(TdbStages)]

\* smb.validate_groupmap_hwm
ValidateGroupmapHwm ==
    \E env \in {e \in TdbEnvs : tdb.file => e.init = 4} :
        LET done == validate_groupmap_hwm(DefaultLow, tdb, DefaultBackend, env)
        IN /\ calls < MaxCalls
           /\ calls' = calls + 1
           /\ tdb' = done.tdb
           /\ last' = [NoCall EXCEPT !.op = "validate_groupmap_hwm",
                                     !.data = [low_range |-> DefaultLow, env |-> env,
                                               before |-> tdb],
                                     !.status = "ok",
                                     !.effects = done.effects,
                                     !.result = [returned |-> done.must_reload,
                                                 logged |-> done.logged]]
           /\ UNCHANGED <<store, ds_state, secrets, inflight, jobs, services, registry>>

\* winbindd allocates the next gid for a SID it has no mapping for
WinbinddAllocates ==
    \E sid \in {"S-1-5-21-9-1000", "S-1-5-21-9-1001"} :
        /\ tdb.file
        /\ TdbKey("GROUP HWM") \in DOMAIN tdb.table
        /\ TdbSid(sid) \notin DOMAIN tdb.table
        /\ calls < MaxCalls
        /\ calls' = calls + 1
        /\ LET gid == tdb.table[TdbKey("GROUP HWM")].n
           IN tdb' = [tdb EXCEPT !.table =
                        Merge(@, (TdbKey("GROUP HWM") :> TdbInt(gid + 1))
                                 @@ (TdbGid(gid) :> TdbSid(sid))
                                 @@ (TdbSid(sid) :> TdbGid(gid)))]
        /\ last' = [NoCall EXCEPT !.op = "winbindd", !.status = "ok"]
        /\ UNCHANGED <<store, ds_state, secrets, inflight, jobs, services, registry>>

InitTdb ==
    /\ store = InitialStore
    /\ ds_state = [activedirectory |-> "HEALTHY", ldap |-> "HEALTHY"]
    /\ secrets = {}
    /\ last = NoCall
    /\ calls = 0
    /\ inflight = [p \in Clients |-> Idle]
    /\ jobs = <<>>
    /\ services = [idmap |-> TRUE, cifs |-> TRUE]
    /\ registry = idmap_to_smbconf(in_order(InitialStore), ds_state)
    /\ tdb \in {[file |-> table # EmptyDict, table |-> table] :
                    table \in TdbChoices(InitialStore[3].range_low)}

NextTdb == ValidateGroupmapHwm \/ WinbinddAllocates

SpecTdb == InitTdb /\ [][NextTdb]_vars

----------------------------------------------------------------------------
(* Notions the claims use *)

\* the system domains of the initial table
SystemNames == {"DS_TYPE_ACTIVEDIRECTORY", "DS_TYPE_LDAP", "DS_TYPE_DEFAULT_DOMAIN"}

\* a domain is enabled unless it is the LDAP or AD system domain of a directory
\* service that is neither HEALTHY nor JOINING
Enabled(d) ==
    /\ ~(d.name = "DS_TYPE_LDAP" /\ ds_state.ldap \notin {"HEALTHY", "JOINING"})
    /\ ~(d.name = "DS_TYPE_ACTIVEDIRECTORY"
         /\ ds_state.activedirectory \notin {"HEALTHY", "JOINING"})

\* [a.range_low, a.range_high) and [b.range_low, b.range_high) share an id
HalfOpenOverlap(a, b) ==
    \E x \in {a.range_low, b.range_low} :
        /\ a.range_low <= x /\ x < a.range_high
        /\ b.range_low <= x /\ x < b.range_high

\* [a.range_low, a.range_high] and [b.range_low, b.range_high] share an id
ClosedOverlap(a, b) ==
    \E x \in {a.range_low, b.range_low} :
        /\ a.range_low <= x /\ x <= a.range_high
        /\ b.range_low <= x /\ x <= b.range_high

\* the pairs that may overlap: both use the AD backend, or one is the default
\* domain and the other uses AUTORID
PermittedPair(a, b) ==
    \/ a.idmap_backend = "AD" /\ b.idmap_backend = "AD"
    \/ a.name = "DS_TYPE_DEFAULT_DOMAIN" /\ b.idmap_backend = "AUTORID"
    \/ b.name = "DS_TYPE_DEFAULT_DOMAIN" /\ a.idmap_backend = "AUTORID"

\* the last call was a create or an update that succeeded, and wrote row last.id
Wrote == last.op \in {"create", "update"} /\ last.status = "ok"

\* the last call failed: it raised instead of returning
Failed == last.op # "none" /\ last.status # "ok"

\* the record the last create or update validated, when an update left the table as it was
LastRecord ==
    IF last.op = "create" THEN last.data ELSE Merge(store[last.id], last.data)

----------------------------------------------------------------------------
(* C1: starting from a table in which no two enabled domains have           *)
(* overlapping [range_low, range_high) intervals, no sequence of creates,   *)
(* updates and deletes produces two enabled domains that overlap, except    *)
(* two AD-backend domains, or the default domain and an AUTORID domain.     *)
(* The health of the directory services is fixed during the sequence.       *)

C1_NoEnabledOverlap ==
    \A a \in query, b \in query :
        (a.id # b.id /\ Enabled(a) /\ Enabled(b) /\ ~PermittedPair(a, b))
            => ~HalfOpenOverlap(a, b)

\* two creates and an update have succeeded; all five domains are enabled or
\* two of them overlap under one of the exceptions
C1_Witness ==
    /\ calls = 3 /\ Wrote /\ last.op = "update"
    /\ Cardinality(DOMAIN store) = 5
    /\ \E a \in query, b \in query :
          a.id # b.id /\ Enabled(a) /\ Enabled(b) /\ HalfOpenOverlap(a, b)

----------------------------------------------------------------------------
(* C2: a delete of a domain that carries a DSType name fails with EPERM in  *)
(* every state; the row stays, no secret changes, and neither the           *)
(* synchronisation nor a restart of the daemon is called.                   *)

C2_DeleteReservedDenied ==
    [][\A id_ \in DOMAIN store :
          (last'.op = "delete" /\ last'.id = id_ /\ calls' = calls + 1
           /\ store[id_].name \in DSTypeChoices)
          => (/\ last'.status = "EPERM"
              /\ store' = store
              /\ secrets' = secrets
              /\ last'.effects = <<>>)]_vars

\* a delete of DS_TYPE_DEFAULT_DOMAIN, and of a created DS_TYPE_NIS, was refused
C2_Witness ==
    /\ last.op = "delete" /\ last.status = "EPERM"
    /\ last.id \in DOMAIN store
    /\ store[last.id].name = "DS_TYPE_NIS"
    /\ \E d \in query : d.name = "DS_TYPE_DEFAULT_DOMAIN"

----------------------------------------------------------------------------
(* C3: a create or update whose range intersects, as the closed interval    *)
(* [range_low, range_high], the range of another enabled domain outside the *)
(* permitted pairs is rejected and nothing is persisted; when it is         *)
(* rejected with validation errors, they name that domain and both ranges.  *)
(* This includes a range that shares only an endpoint with the other one.   *)

C3_ClosedIntersectionRejected ==
    /\ Wrote =>
         \A i \in query :
            (i.id # last.id /\ Enabled(i) /\ ~PermittedPair(store[last.id], i))
                => ~ClosedOverlap(store[last.id], i)
    /\ (last.op \in {"create", "update"} /\ last.status = "ValidationErrors") =>
         \A i \in query :
            (i.id # last.id /\ Enabled(i) /\ ~PermittedPair(LastRecord, i)
             /\ ClosedOverlap(LastRecord, i))
                => ConflictErr(LastRecord, i) \in last.verrors

----------------------------------------------------------------------------
(* C4: validation never reports a range conflict between two domains that   *)
(* both use the AD backend, nor between DS_TYPE_DEFAULT_DOMAIN and an       *)
(* enabled AUTORID-backed DS_TYPE_ACTIVEDIRECTORY domain, whichever of the  *)
(* two is the record being written and whichever is the stored one.         *)

\* the pairs C4 exempts
ExemptPair(a, b) ==
    \/ a.idmap_backend = "AD" /\ b.idmap_backend = "AD"
    \/ /\ a.name = "DS_TYPE_DEFAULT_DOMAIN"
       /\ b.name = "DS_TYPE_ACTIVEDIRECTORY" /\ b.idmap_backend = "AUTORID" /\ Enabled(b)
    \/ /\ b.name = "DS_TYPE_DEFAULT_DOMAIN"
       /\ a.name = "DS_TYPE_ACTIVEDIRECTORY" /\ a.idmap_backend = "AUTORID" /\ Enabled(a)

C4_ExemptPairsNeverReported ==
    (last.op \in {"create", "update"} /\ last.status = "ValidationErrors") =>
        \A i \in query :
            (i.id # last.id /\ ExemptPair(LastRecord, i))
                => ConflictErr(LastRecord, i) \notin last.verrors

----------------------------------------------------------------------------
(* C5: on a table that is not empty get_next_idmap_range returns            *)
(* (H + 1, H + 100000000), H being the largest range_high of the table, so  *)
(* the range lies above every existing range; a domain created in the range *)
(* it returned lies above all the others, and a range freed by a delete is  *)
(* not returned while a higher range exists.                                *)

C5_NextRangeAboveAll ==
    /\ query # {} =>
         /\ \A d \in query : d.range_high < get_next_idmap_range[1]
         /\ \E d \in query : get_next_idmap_range[1] = d.range_high + 1
         /\ get_next_idmap_range[2] = get_next_idmap_range[1] + 99999999
    /\ (last.next_range # <<>> /\ last.status = "ok") =>
         /\ store[last.id].range_low = last.next_range[1]
         /\ store[last.id].range_high = last.next_range[2]
         /\ \A d \in query : d.id # last.id => d.range_high < store[last.id].range_low

\* two domains were created in allocated ranges and the lower one deleted: its
\* range is free, a higher one exists, and the next range lies above that one
C5_Witness ==
    /\ calls = 3 /\ last.op = "delete" /\ last.status = "ok"
    /\ \E d \in query : d.range_low = 300000001 /\ d.range_high = 400000000
    /\ ~\E d \in query : d.range_low = 200000001
    /\ get_next_idmap_range = <<400000001, 500000000>>

----------------------------------------------------------------------------
(* C6: in every reachable state each system domain name of the initial      *)
(* table names exactly one domain: it is not deleted, not renamed, and no   *)
(* other domain is created with or renamed to its name.                     *)

C6_OnePerSystemName ==
    \A n \in SystemNames : Cardinality({d \in query : d.name = n}) = 1

\* an update that renames a system domain was rejected for that reason
C6_Witness ==
    /\ last.op = "update" /\ last.status = "ValidationErrors"
    /\ store[last.id].name = "DS_TYPE_DEFAULT_DOMAIN"
    /\ HasKey(last.data, "name") /\ last.data.name = "corp"
    /\ VErr("name", "Changing name of default domain is not permitted") \in last.verrors

----------------------------------------------------------------------------
(* C7: domain names are unique in every reachable state.  A create with the *)
(* name of an existing domain, and a rename to the name of another domain,  *)
(* never succeed and leave the table as it was; when such a call ends with  *)
(* validation errors they report the name.  An update that keeps the        *)
(* domain's own name is not reported as colliding with itself.              *)

\* another row than the one the last call wrote carries the name the call gave
NameTaken ==
    /\ last.op \in {"create", "update"}
    /\ HasKey(last.data, "name")
    /\ \E d \in query : d.id # last.id /\ d.name = last.data.name

----------------------------------------------------------------------------
(* C8: the options of every persisted domain contain every required key of *)
(* the domain's backend and no key the backend does not support, after any  *)
(* sequence of creates and updates, also when an update changes the backend *)
(* or gives only some options.                                              *)

C8_OptionsFitBackend ==
    \A d \in query :
        /\ required_keys(d.idmap_backend) \subseteq DOMAIN d.options
        /\ DOMAIN d.options \subseteq supported_keys(d.idmap_backend)

\* an update changed a domain's backend to LDAP, with LDAP's options
C8_Witness ==
    /\ Wrote /\ last.op = "update"
    /\ HasKey(last.data, "idmap_backend") /\ last.data.idmap_backend = "LDAP"
    /\ store[last.id].name = "CORP"
    /\ required_keys("LDAP") # {}
    /\ required_keys("LDAP") \subseteq DOMAIN store[last.id].options

----------------------------------------------------------------------------
(* C9: validate_options computes missing = required - provided and         *)
(* extra = provided - supported for the record's backend.  A create is      *)
(* rejected when either is not empty.  An update is rejected when a         *)
(* required key is missing from the merged options; it checks extra keys    *)
(* only when its payload has a non-empty options patch, over that patch.    *)

\* the option errors a create of data must report
CreateOptionErrors(data) ==
    {VErr("options." \o k, "is a required parameter") :
        k \in required_keys(data.idmap_backend) \ DOMAIN data.options}
    \cup {VErr("options." \o k, "is not a valid parameter") :
        k \in (DOMAIN data.options) \ supported_keys(data.idmap_backend)}

\* the option errors an update of row old with payload data must report
UpdateOptionErrors(old, data) ==
    LET changed == HasKey(data, "idmap_backend") /\ data.idmap_backend # old.idmap_backend
        backend == IF HasKey(data, "idmap_backend") THEN data.idmap_backend
                   ELSE old.idmap_backend
        patch == OptionsOf(data)
        merged == IF changed THEN DOMAIN patch ELSE (DOMAIN old.options) \cup (DOMAIN patch)
    IN {VErr("options." \o k, "is a required parameter") : k \in required_keys(backend) \ merged}
       \cup {VErr("options." \o k, "is not a valid parameter") :
                k \in (DOMAIN patch) \ supported_keys(backend)}

\* the option errors among the validation errors of the last call
OptionErrors(verrors) ==
    {e \in verrors : e.message \in {"is a required parameter", "is not a valid parameter"}}

\* the last call got as far as the final verrors.check()
ReachedCheck ==
    /\ last.status \in {"ok", "ValidationErrors"}
    /\ VErr("options", "AD service must be enabled and started") \notin last.verrors

C9_OptionPolicy ==
    [][/\ (last'.op = "create" /\ calls' = calls + 1) =>
            /\ last'.status = "ok" => CreateOptionErrors(last'.data) = {}
            /\ ReachedCheck' => OptionErrors(last'.verrors) = CreateOptionErrors(last'.data)
       /\ (last'.op = "update" /\ calls' = calls + 1) =>
            /\ last'.status = "ok" => UpdateOptionErrors(store[last'.id], last'.data) = {}
            /\ ReachedCheck' =>
                 OptionErrors(last'.verrors) = UpdateOptionErrors(store[last'.id], last'.data)
      ]_vars

\* an update that changes the backend to LDAP without options was rejected for
\* the three required keys, and only for them
C9_Witness ==
    /\ last.op = "update" /\ last.status = "ValidationErrors"
    /\ last.data = [idmap_backend |-> "LDAP"]
    /\ store[last.id].idmap_backend = "RID"
    /\ OptionErrors(last.verrors) =
         {VErr("options." \o k, "is a required parameter") :
            k \in {"ldap_base_dn", "ldap_user_dn", "ldap_url"}}

----------------------------------------------------------------------------
(* C10: a successful create that does not ask for the compatibility range   *)
(* persists the caller's range_low and range_high, and options equal to the *)
(* backend's defaults overridden by the caller's options.                   *)

NoCompat == ~Truthy(Get(last.data.options, "sssd_compat"))

\* as the claim has it: every key the caller gave is persisted with its value
C10_CallerOptionsPersisted ==
    (last.op = "create" /\ last.status = "ok" /\ NoCompat) =>
        /\ store[last.id].range_low = last.data.range_low
        /\ store[last.id].range_high = last.data.range_high
        /\ store[last.id].options = Merge(defaults(last.data.idmap_backend), last.data.options)

\* amended: a non-empty ldap_user_dn_password is not persisted
C10_CallerOptionsPersistedButSecret ==
    (last.op = "create" /\ last.status = "ok" /\ NoCompat) =>
        /\ store[last.id].range_low = last.data.range_low
        /\ store[last.id].range_high = last.data.range_high
        /\ store[last.id].options =
             Merge(defaults(last.data.idmap_backend),
                   IF Truthy(Get(last.data.options, "ldap_user_dn_password"))
                   THEN Without(last.data.options, {"ldap_user_dn_password"})
                   ELSE last.data.options)

\* CORP was created with RID, 1000000-1100000 and no options, and a second
\* domain with an option that differs from the backend's default
C10_Witness ==
    /\ last.op = "create" /\ last.status = "ok"
    /\ last.data.idmap_backend = "LDAP"
    /\ Get(last.data.options, "ssl") = "ON" /\ Get(store[last.id].options, "ssl") = "ON"
    /\ Get(defaults("LDAP"), "ssl") = "OFF"
    /\ \E d \in query :
          /\ d.name = "CORP" /\ d.idmap_backend = "RID"
          /\ d.range_low = 1000000 /\ d.range_high = 1100000
          /\ d.options = [sssd_compat |-> "False"]

----------------------------------------------------------------------------
(* C11: an update that changes idmap_backend discards the options stored    *)
(* for the previous backend: the persisted options are those of the update  *)
(* itself and the new backend's defaults.  If it supplies no options and    *)
(* the new backend has required keys, it fails with a validation error that *)
(* lists every required key as missing, and the table is unchanged.  An     *)
(* update that keeps the backend merges its options over the stored ones.   *)

\* the update payload data changes the backend of row old
ChangesBackend(old, data) ==
    HasKey(data, "idmap_backend") /\ data.idmap_backend # old.idmap_backend

\* options less the password that goes to the secret store
LessSecret(options) ==
    IF Truthy(Get(options, "ldap_user_dn_password"))
    THEN Without(options, {"ldap_user_dn_password"})
    ELSE options

C11_BackendChangeDiscardsOptions ==
    [][\A id_ \in DOMAIN store :
         (last'.op = "update" /\ last'.id = id_ /\ calls' = calls + 1) =>
           LET old == store[id_]
               data == last'.data
               backend == IF HasKey(data, "idmap_backend") THEN data.idmap_backend
                          ELSE old.idmap_backend
           IN /\ (ChangesBackend(old, data) /\ last'.status = "ok") =>
                    store'[id_].options = Merge(defaults(backend), LessSecret(OptionsOf(data)))
              /\ (ChangesBackend(old, data) /\ OptionsOf(data) = EmptyDict
                  /\ required_keys(backend) # {}) =>
                    /\ last'.status = "ValidationErrors"
                    /\ \A k \in required_keys(backend) :
                          VErr("options." \o k, "is a required parameter") \in last'.verrors
                    /\ store' = store
              /\ (~ChangesBackend(old, data) /\ last'.status = "ok") =>
                    store'[id_].options =
                        Merge(defaults(backend),
                              LessSecret(Merge(old.options, OptionsOf(data))))
      ]_vars

----------------------------------------------------------------------------
(* C12: a create that asks for sssd_compat, or an update that newly enables *)
(* it, while Active Directory is not HEALTHY fails with a validation error  *)
(* before idmap.domain_info is called and before a range is computed; the   *)
(* table and the secret store are unchanged and nothing is synchronised.    *)

\* the call the step makes asks for the compatibility range
AsksCompat(op, old, data) ==
    IF op = "create"
    THEN Truthy(Get(data.options, "sssd_compat"))
    ELSE /\ Truthy(Get(IF ChangesBackend(old, data) THEN OptionsOf(data)
                       ELSE Merge(old.options, OptionsOf(data)), "sssd_compat"))
         /\ ~Truthy(Get(old.options, "sssd_compat"))

\* the step is a call of op on row id_ (for a create, the row it would add)
Calls(op, id_) ==
    /\ calls' = calls + 1
    /\ last'.op = op
    /\ op = "update" => last'.id = id_

C12_CompatFailsFast ==
    [][\A op \in {"create", "update"}, id_ \in DOMAIN store :
         (/\ Calls(op, id_)
          /\ AsksCompat(op, store[id_], last'.data)
          /\ ds_state.activedirectory # "HEALTHY") =>
            /\ last'.status = "ValidationErrors"
            /\ VErr("options", "AD service must be enabled and started") \in last'.verrors
            /\ last'.effects = <<"activedirectory.get_state">>
            /\ store' = store
            /\ secrets' = secrets
      ]_vars

\* an update that enables sssd_compat on a created domain was refused while
\* Active Directory was joining
C12_Witness ==
    /\ ds_state.activedirectory = "JOINING"
    /\ last.op = "update" /\ last.id = 4
    /\ Get(OptionsOf(last.data), "sssd_compat") = "True"
    /\ last.status = "ValidationErrors"
    /\ last.effects = <<"activedirectory.get_state">>

----------------------------------------------------------------------------
(* C13: get_sssd_low_range returns (h mod max_slices) * range_size +        *)
(* range_size, h being MurmurHash3 x86-32 of the UTF-8 bytes of the SID     *)
(* with seed 0xdeadbeef and max_slices = (2000200000 - 10001) div 200000.   *)

\* MurmurHash3's mixing of a block: k * 0xcc9e2d51, rotated left by 15, * 0x1b873593
Murmur3Mix(k) == MulW(RotlW(MulW(k, <<52382, 11601>>), 15), <<7047, 13715>>)

RECURSIVE Murmur3Blocks(_, _, _)
\* h after the blocks i, i + 1, ... of key; block i is key[4i-3..4i], little-endian
Murmur3Blocks(h, key, i) ==
    IF h \notin Words \/ i > Len(key) \div 4 THEN h
    ELSE LET k == <<key[4 * i] * 256 + key[4 * i - 1], key[4 * i - 2] * 256 + key[4 * i - 3]>>
             h1 == RotlW(XorW(h, Murmur3Mix(k)), 13)
         IN Murmur3Blocks(AddW(MulW(h1, <<0, 5>>), <<58964, 27492>>), key, i + 1)

\* MurmurHash3 x86-32 of key with seed 0xdeadbeef
Murmur3(key) ==
    LET len == Len(key)
        body == Murmur3Blocks(<<57005, 48879>>, key, 1)
        rest == SubSeq(key, 4 * (len \div 4) + 1, len)
        k == CASE len % 4 = 3 -> <<rest[3], rest[2] * 256 + rest[1]>>
               [] len % 4 = 2 -> <<0, rest[2] * 256 + rest[1]>>
               [] len % 4 = 1 -> <<0, rest[1]>>
               [] OTHER -> <<0, 0>>
        h0 == IF len % 4 = 0 THEN body ELSE XorW(body, Murmur3Mix(k))
        h1 == XorW(h0, <<len \div 65536, len % 65536>>)
        h2 == MulW(XorW(h1, ShrW(h1, 16)), <<34283, 51819>>)
        h3 == MulW(XorW(h2, ShrW(h2, 13)), <<49842, 44597>>)
    IN Having({body, h0, h1, h2, h3}, XorW(h3, ShrW(h3, 16)))

\* what the hash and the range are known to be for four strings: the empty one,
\* "S-1-5-21-15948", "S-1-5-21-3623811015-3361044348-30300820" and "S-é5"
KnownLowRange ==
    [sid \in {<<>>, Sid(<<1, 5, 9, 4, 8>>), LongSid, <<83, 45, 233, 53>>} |->
        CASE sid = <<>> -> 482000000
          [] sid = Sid(<<1, 5, 9, 4, 8>>) -> 1000000
          [] sid = LongSid -> 674000000
          [] OTHER -> 1130600000]

C13_LowRangeIsMurmur3Slice ==
    last.op = "get_sssd_low_range" =>
        /\ (\A i \in DOMAIN last.data.sid : last.data.sid[i] < 128) =>
              last.next_range[1] = ModW(Murmur3(last.data.sid), 10000) * 200000 + 200000
        /\ last.data.sid \in DOMAIN KnownLowRange =>
              last.next_range[1] = KnownLowRange[last.data.sid]

\* the range of the 39 characters of a real domain's SID was computed: nine
\* blocks and a tail of three bytes
C13_Witness ==
    /\ last.op = "get_sssd_low_range"
    /\ last.data.sid = LongSid
    /\ Len(last.data.sid) = 39
    /\ last.next_range = <<674000000, 774000000>>

----------------------------------------------------------------------------
(* C14: no persisted record carries the bind secret inline: after a         *)
(* successful create or update no stored options contain the key            *)
(* ldap_user_dn_password, and a supplied value is handed to the secret      *)
(* store and removed from the options before the record is written.         *)

\* the value of ldap_user_dn_password the last call supplied, "None" if none
SuppliedSecret == Get(OptionsOf(last.data), "ldap_user_dn_password")

\* as stated: the key is in no stored options, whatever value was supplied
C14_NoPasswordKeyStored ==
    /\ \A i \in DOMAIN store : ~HasKey(store[i].options, "ldap_user_dn_password")
    /\ (Wrote /\ HasKey(OptionsOf(last.data), "ldap_user_dn_password")) =>
          <<secret_domain(store[last.id].name), SuppliedSecret>> \in secrets

\* no stored options carry a non-empty ldap_user_dn_password, and a non-empty
\* value a successful create or update supplied is in the secret store, under
\* the domain's name (the workgroup for a system domain), and not in the record
C14_NoSecretStored ==
    /\ \A i \in DOMAIN store : ~Truthy(Get(store[i].options, "ldap_user_dn_password"))
    /\ (Wrote /\ Truthy(SuppliedSecret)) =>
          /\ <<secret_domain(store[last.id].name), SuppliedSecret>> \in secrets
          /\ ~HasKey(store[last.id].options, "ldap_user_dn_password")

\* a create or an update supplied a password, and it went to the secret store
C14_Witness ==
    /\ Wrote
    /\ SuppliedSecret = "secret"
    /\ <<secret_domain(store[last.id].name), "secret">> \in secrets
    /\ store[last.id].idmap_backend = "LDAP"
    /\ ~HasKey(store[last.id].options, "ldap_user_dn_password")

----------------------------------------------------------------------------
(* C15: create and update are all-or-nothing: when the trial connection     *)
(* that verifies a supplied secret fails, or the compatibility-hash step    *)
(* fails (AD not healthy, or the SID cannot be fetched), the table and the  *)
(* secret store are as they were before the call, and no write,             *)
(* synchronization, daemon restart or cache clear has been issued.          *)

\* ldapclient.validate_credentials raised: it is the last call the operation made
TrialFailed(l) ==
    /\ l.status = "CallError"
    /\ l.effects # <<>>
    /\ l.effects[Len(l.effects)] = "ldapclient.validate_credentials"

\* the compatibility range could not be computed
CompatFailed(l) ==
    \/ l.status = "WBCError"
    \/ /\ l.status = "ValidationErrors"
       /\ VErr("options", "AD service must be enabled and started") \in l.verrors

\* the calls that write, synchronize, restart or clear
Mutating ==
    {"datastore.insert", "datastore.update", "directoryservices.set_ldap_secret",
     "directoryservices.backup_secrets", "smb.reg_globals", "sharing.smb.apply_conf_diff",
     "service.restart idmap", "idmap.clear_idmap_cache", "cache_job.wait"}

C15_AllOrNothing ==
    [][(last'.op \in {"create", "update"} /\ (TrialFailed(last') \/ CompatFailed(last'))) =>
          /\ store' = store
          /\ secrets' = secrets
          /\ \A i \in DOMAIN last'.effects : last'.effects[i] \notin Mutating]_vars

\* an update whose new password the server refused, after a create had stored
\* one: the table still has the created row and the secret store the old secret
C15_Witness ==
    /\ last.op = "update"
    /\ TrialFailed(last)
    /\ SuppliedSecret = "secret"
    /\ secrets # {}
    /\ \E i \in DOMAIN store : store[i].name \in UserNames

----------------------------------------------------------------------------
(* C16: validation is aggregated: a create or update request that contains  *)
(* several violations at once is answered with one validation failure that  *)
(* reports all of them; validation never stops at the first violation.      *)

\* the record of the last create or update has range_high below range_low
Inverted ==
    /\ last.op \in {"create", "update"}
    /\ last.op = "update" => last.id \in DOMAIN store
    /\ LastRecord.range_high < LastRecord.range_low

\* as stated, for two violations: a request whose name is in use and whose
\* range is inverted is answered with both errors
C16_AllViolationsReported ==
    (Inverted /\ NameTaken) =>
        /\ last.status = "ValidationErrors"
        /\ VErr("range_low", "high range must be greater than low range") \in last.verrors
        /\ \E e \in last.verrors :
              e.attribute = "name" /\ e.message \in {"Name must be unique.",
                                                    "Domain names must be unique."}

----------------------------------------------------------------------------
(* C17: a successful update returns only after the record is written, the   *)
(* configuration is synchronized without a daemon restart, and the          *)
(* clear_idmap_cache job was started and has run to completion, in this     *)
(* order; it never returns while the job is pending or running.             *)

\* client p's update returns in this step
Returns(p) == inflight[p].op = "update" /\ inflight'[p] = Idle

C17_UpdateReturnsAfterCacheClear ==
    [][\A p \in Clients :
          Returns(p) =>
            /\ inflight[p].done =
                  <<"datastore.update", "smb.reg_globals", "sharing.smb.apply_conf_diff",
                    "idmap.clear_idmap_cache", "cache_job.wait">>
            /\ inflight[p].job \in DOMAIN jobs
            /\ jobs[inflight[p].job].state \in {"SUCCESS", "FAILED"}
            /\ store[inflight[p].id] = inflight[p].row]_vars

\* an update has returned while the other client's update is still waiting for
\* the job both were given: the job that ended was the first one's
C17_Witness ==
    /\ last.op = "update"
    /\ last.status = "ok"
    /\ Len(last.effects) = 5
    /\ \E j \in DOMAIN jobs : jobs[j].state = "SUCCESS"
    /\ \E p \in Clients :
          /\ inflight[p].op = "update"
          /\ inflight[p].todo = <<"cache_job.wait">>
          /\ ~job_finished(inflight[p].job)

----------------------------------------------------------------------------
(* C18: every successful create, update and delete calls synchronize after  *)
(* the store mutation and before returning; a rejected operation never      *)
(* calls it.  Create and delete synchronize with a daemon restart and do    *)
(* not clear the daemon cache; only update clears the cache.                *)

\* the place of call x among the calls the last operation made, 0 if it is not there
Place(x) ==
    IF \E i \in DOMAIN last.effects : last.effects[i] = x
    THEN CHOOSE i \in DOMAIN last.effects :
            /\ last.effects[i] = x
            /\ \A j \in DOMAIN last.effects : last.effects[j] = x => i <= j
    ELSE 0

\* synchronize was called right after the store mutation x
SyncedAfter(x) ==
    /\ Place(x) > 0
    /\ Place("smb.reg_globals") = Place(x) + 1
    /\ Place("sharing.smb.apply_conf_diff") = Place(x) + 2

C18_SynchronizeAfterMutation ==
    /\ (last.op = "create" /\ last.status = "ok") =>
          /\ SyncedAfter("datastore.insert")
          /\ Place("service.restart idmap") = Place("datastore.insert") + 3
          /\ Place("idmap.clear_idmap_cache") = 0
    /\ (last.op = "delete" /\ last.status = "ok") =>
          /\ SyncedAfter("datastore.delete")
          /\ Place("service.restart idmap") = Place("datastore.delete") + 3
          /\ Place("idmap.clear_idmap_cache") = 0
    /\ (last.op = "update" /\ last.status = "ok") =>
          /\ SyncedAfter("datastore.update")
          /\ Place("service.restart idmap") = 0
          /\ Place("idmap.clear_idmap_cache") = Place("datastore.update") + 3
    /\ (last.op \in {"create", "update", "delete"} /\ last.status # "ok") =>
          /\ Place("smb.reg_globals") = 0
          /\ Place("sharing.smb.apply_conf_diff") = 0
          /\ Place("service.restart idmap") = 0
          /\ Place("idmap.clear_idmap_cache") = 0

\* a create, an update and a delete have succeeded, the delete last: the
\* created row is gone and the daemon was restarted
C18_Witness ==
    /\ calls = 3
    /\ last.op = "delete"
    /\ last.status = "ok"
    /\ DOMAIN store = DOMAIN InitialStore
    /\ store # InitialStore
    /\ Place("service.restart idmap") = 4

----------------------------------------------------------------------------
(* C19: the validate-then-persist sequences of two concurrent mutations do  *)
(* not interleave: two concurrent creates whose ranges overlap each other,  *)
(* each valid against the table as it was before either ran, cannot both    *)
(* pass the overlap validation, so the table never holds both.              *)

\* as stated, for the domains the clients create: no two of them with
\* different names, other than a permitted pair, hold ranges that overlap
C19_ConcurrentCreatesExcludeEachOther ==
    \A a, b \in query :
        (a.name \in UserNames /\ b.name \in UserNames /\ a.name # b.name
         /\ ~PermittedPair(a, b))
            => ~HalfOpenOverlap(a, b)

----------------------------------------------------------------------------
(* C20: at any time at most one clear_idmap_cache execution is in progress  *)
(* and at most one further request waits behind it; any additional          *)
(* concurrent request is rejected or coalesced with the pending one rather  *)
(* than queued.                                                             *)

\* the jobs of js in the given state
JobsIn(js, state) == {j \in DOMAIN js : js[j].state = state}

\* a step in which a client calls idmap.clear_idmap_cache from outside
ClearRequested ==
    calls' = calls + 1 /\ inflight' = inflight /\ last'.op = "clear_idmap_cache"

C20_OneRunningOneWaiting ==
    [][/\ Cardinality(JobsIn(jobs', "RUNNING")) <= 1
       /\ Cardinality(JobsIn(jobs', "WAITING")) <= 1
       /\ Len(jobs') > Len(jobs) => JobsIn(jobs, "WAITING") = {}
       /\ (ClearRequested /\ JobsIn(jobs, "WAITING") # {}) =>
             /\ jobs' = jobs
             /\ last'.id \in JobsIn(jobs, "WAITING")
       /\ \A j \in DOMAIN jobs :
             jobs'[j].pos # jobs[j].pos => JobsIn(jobs, "RUNNING") = {j}]_vars

\* a job is in the middle of its steps, with the daemon stopped, a second one
\* waits, and a third request was given the waiting job
C20_Witness ==
    /\ calls = 3
    /\ last.op = "clear_idmap_cache"
    /\ Len(jobs) = 2
    /\ jobs[1].state = "RUNNING"
    /\ jobs[1].pos = 4
    /\ ~services.idmap
    /\ jobs[2].state = "WAITING"
    /\ last.id = 2

----------------------------------------------------------------------------
(* C21: one call opens a client session twice at most and starts the daemon *)
(* once at most.  When the first open fails because the daemon is not       *)
(* running, the start is attempted once if the system dataset path is       *)
(* mounted and otherwise the call fails with EAGAIN without a start; the     *)
(* open is retried once if the start returned, and an error of the retry is *)
(* surfaced without another start.  Any other error of the first open is    *)
(* surfaced at once, with no start and no retry.                            *)

\* how often x occurs in the list
Count(list, x) == Cardinality({i \in DOMAIN list : list[i] = x})

\* the last call was a conversion that asked for a client session
OpenedClient == last.op \in {"convert_sids", "convert_unixids"} /\ last.effects # <<>>

Opens == Count(last.effects, "WBClient")

Starts == Count(last.effects, "service.start idmap")

FirstOpen == last.data.env.opens[1]

Surfaced(error_code) == last.status = "CallError" /\ last.error = error_code

OtherErrorSurfacedAtOnce ==
    FirstOpen \in WBCErrors \ {"WBC_ERR_WINBIND_NOT_AVAILABLE"} =>
        Starts = 0 /\ Opens = 1 /\ Surfaced(FirstOpen)

\* the claim as it was stated: exactly one start and exactly one retry
C21_AlwaysStartsAndRetries ==
    OpenedClient =>
        /\ FirstOpen = "WBC_ERR_WINBIND_NOT_AVAILABLE" => Starts = 1 /\ Opens = 2
        /\ OtherErrorSurfacedAtOnce

C21_StartOnceRetryOnce ==
    OpenedClient =>
        /\ Opens <= 2 /\ Starts <= 1
        /\ FirstOpen = "WBC_ERR_WINBIND_NOT_AVAILABLE" =>
              /\ Starts = 1 <=> Truthy(last.data.env.sysdataset_path)
              /\ Starts = 0 => Opens = 1 /\ Surfaced("EAGAIN")
              /\ Opens = 2 <=> Starts = 1 /\ last.data.env.start = "ok"
              /\ Opens = 2 /\ last.data.env.opens[2] # "ok" =>
                    Surfaced(last.data.env.opens[2])
        /\ OtherErrorSurfacedAtOnce
        /\ FirstOpen = "ok" => Starts = 0 /\ Opens = 1

\* the daemon was started and the retry failed as the first open had
C21_Witness ==
    /\ OpenedClient
    /\ FirstOpen = "WBC_ERR_WINBIND_NOT_AVAILABLE"
    /\ last.data.env.opens[2] = "WBC_ERR_WINBIND_NOT_AVAILABLE"
    /\ Starts = 1 /\ Opens = 2
    /\ Surfaced("WBC_ERR_WINBIND_NOT_AVAILABLE")

----------------------------------------------------------------------------
(* C22: a bulk conversion of a list of which winbindd knows only a part     *)
(* does not raise because of the unknown part: with a list that is not      *)
(* empty and a client session, convert_sids returns a result whose mapped   *)
(* keys are exactly the known SIDs of the list and whose unmapped keys are  *)
(* exactly the unknown ones, the two sets being disjoint and together the   *)
(* input.  The same holds for convert_unixids and the unix ids of its list. *)

KnownSids == {e.sid : e \in WinbindEntries}

KnownUnixids == {<<e.id_type, e.id>> : e \in WinbindEntries}

\* the call obtains a client session, at once or after the start of the daemon
SessionOpens(env) ==
    \/ env.opens[1] = "ok"
    \/ /\ env.opens[1] = "WBC_ERR_WINBIND_NOT_AVAILABLE"
       /\ Truthy(env.sysdataset_path) /\ env.start = "ok"
       /\ env.opens[2] = "ok"

\* the key under which a unix id of the input is reported
UnixidKey(entry) ==
    <<IF Get(entry, "id_type") = "USER" THEN "UID" ELSE "GID", entry.id>>

ValidIdTypes(id_list) ==
    \A i \in DOMAIN id_list : Get(id_list[i], "id_type") \in {"None", "USER", "GROUP"}

\* the result splits the asked keys into the known and the unknown ones
Splits(asked, known) ==
    /\ last.status = "ok"
    /\ DOMAIN last.result.mapped = asked \cap known
    /\ DOMAIN last.result.unmapped = asked \ known
    /\ (DOMAIN last.result.mapped) \cap (DOMAIN last.result.unmapped) = {}
    /\ (DOMAIN last.result.mapped) \cup (DOMAIN last.result.unmapped) = asked

C22_BulkConversionIsPartial ==
    /\ last.op = "convert_sids" /\ last.data.args # <<>> /\ SessionOpens(last.data.env) =>
          Splits({last.data.args[i] : i \in DOMAIN last.data.args}, KnownSids)
    /\ last.op = "convert_unixids" /\ ValidIdTypes(last.data.args)
       /\ SessionOpens(last.data.env) =>
          Splits({UnixidKey(last.data.args[i]) : i \in DOMAIN last.data.args}, KnownUnixids)

\* the scenario: one known and one unknown SID
C22_Witness ==
    /\ last.op = "convert_sids"
    /\ last.data.args = <<"S-1-5-32-544", "S-1-5-99-1">>
    /\ last.status = "ok"
    /\ DOMAIN last.result.mapped = {"S-1-5-32-544"}
    /\ last.result.mapped["S-1-5-32-544"] =
          [type |-> "GROUP", id |-> 90000001, name |-> "BUILTIN\\Administrators"]
    /\ DOMAIN last.result.unmapped = {"S-1-5-99-1"}

----------------------------------------------------------------------------
(* C23: for a desired configuration D and a live registry L,                *)
(* diff_conf_and_registry returns added = the entries of D whose key is not *)
(* in L, removed = the entries of L whose key is not in D, modified = the   *)
(* entries of D whose key is in both with another value; the three key sets *)
(* are pairwise disjoint; applying the diff to L yields D; and a second     *)
(* synchronize with the table unchanged in between computes an empty diff.  *)

\* the entries of the dict d with a key in ks
Restrict(d, ks) == [x \in ks |-> d[x]]

\* diff is the three-way diff of D against L
ThreeWayDiff(diff, D, L) ==
    /\ diff.added = Restrict(D, (DOMAIN D) \ (DOMAIN L))
    /\ diff.removed = Restrict(L, (DOMAIN L) \ (DOMAIN D))
    /\ diff.modified = Restrict(D, {x \in (DOMAIN D) \cap (DOMAIN L) : D[x] # L[x]})
    /\ (DOMAIN diff.added) \cap (DOMAIN diff.removed) = {}
    /\ (DOMAIN diff.added) \cap (DOMAIN diff.modified) = {}
    /\ (DOMAIN diff.removed) \cap (DOMAIN diff.modified) = {}

\* L with the added and modified keys set and the removed keys deleted
Applied(L, diff) ==
    [x \in ((DOMAIN L) \ (DOMAIN diff.removed))
           \cup (DOMAIN diff.added) \cup (DOMAIN diff.modified) |->
        IF x \in DOMAIN diff.added THEN diff.added[x]
        ELSE IF x \in DOMAIN diff.modified THEN diff.modified[x]
        ELSE L[x]]

EmptyDiff == [added |-> EmptyDict, removed |-> EmptyDict, modified |-> EmptyDict]

C23_DiffReconciles ==
    [][/\ last'.op \in {"diff_conf_and_registry", "synchronize"} =>
            /\ ThreeWayDiff(last'.result, last'.data.data, last'.data.idmaps)
            /\ Applied(last'.data.idmaps, last'.result) = last'.data.data
       /\ last'.op = "synchronize" =>
            /\ last'.data.idmaps = registry
            /\ registry' = last'.data.data
       /\ last.op = "synchronize" /\ last'.op = "synchronize" /\ store' = store =>
            last'.result = EmptyDiff]_vars

\* a synchronize that added, removed and modified parameters of the registry
C23_Witness ==
    /\ last.op = "synchronize"
    /\ last.result.added # EmptyDict
    /\ last.result.removed # EmptyDict
    /\ last.result.modified # EmptyDict
    /\ registry = idmap_to_smbconf(in_order(store), ds_state)

----------------------------------------------------------------------------
(* C24: validate_groupmap_hwm changes a cache table that exists only inside *)
(* one transaction.  When a step after transaction_start, up to the commit, *)
(* fails, the transaction is cancelled, the failure is logged, no exception *)
(* reaches the caller, and the table is what it was when the transaction    *)
(* started: the table found by the call, or, when the file did not exist,   *)
(* the table initialize_idmap_tdb had written before the transaction.       *)

Maintenance == last.op = "validate_groupmap_hwm"

Did(call) == \E i \in DOMAIN last.effects : last.effects[i] = call

\* a step between transaction_start and the commit failed
StepFailed ==
    /\ Maintenance
    /\ Did("transaction_start")
    /\ \/ last.data.env.fail # "none"
       \/ last.data.before.file /\ TdbKey("GROUP HWM") \notin DOMAIN last.data.before.table

CancelledAndLogged ==
    /\ Did("transaction_cancel") /\ ~Did("transaction_commit")
    /\ last.result.logged = <<"TDB maintenace failed">>
    /\ last.status = "ok"

\* version 2 and both marks at low_range
FreshTable(low_range) ==
    [k \in {TdbKey("IDMAP_VERSION"), TdbKey("USER HWM"), TdbKey("GROUP HWM")} |->
        IF k = TdbKey("IDMAP_VERSION") THEN TdbInt(2) ELSE TdbInt(low_range)]

\* the claim as it was stated: the table is what it was before the call
C24_TableAsBeforeTheCall == StepFailed => CancelledAndLogged /\ tdb = last.data.before

C24_TableAsAtTransactionStart ==
    /\ StepFailed =>
          /\ CancelledAndLogged
          /\ tdb.file
          /\ tdb.table = IF last.data.before.file THEN last.data.before.table
                         ELSE FreshTable(last.data.low_range)
    /\ Maintenance /\ ~StepFailed /\ Did("transaction_start") => Did("transaction_commit")
    /\ Maintenance /\ last.data.before.file => Did("transaction_start")

\* the commit failed after the transaction had changed a table that existed
C24_Witness ==
    /\ StepFailed
    /\ last.data.env.fail = "commit"
    /\ last.data.before.file
    /\ TdbGid(last.data.low_range + 1) \in DOMAIN last.data.before.table
    /\ last.result.returned
    /\ tdb = last.data.before

----------------------------------------------------------------------------
(* C25: after a validate_groupmap_hwm(low_range) that committed, USER HWM   *)
(* and GROUP HWM are both above the static ids (low_range, the 3            *)
(* auto-allocated groups and the builtins), no mark has decreased and a     *)
(* mark that was above them already is unchanged, and no mapping other than *)
(* those of the builtins holds an id among the static ids.                  *)

Succeeded == Maintenance /\ Did("transaction_commit")

\* the first id above the static ids
AboveStatic ==
    last.data.low_range + Len(WINBINDD_AUTO_ALLOCATED) + Len(WELL_KNOWN_SIDS)

Marks == {TdbKey("USER HWM"), TdbKey("GROUP HWM")}

\* the mark of the table the call found, low_range when the call created it
MarkBefore(mark) ==
    IF last.data.before.file THEN last.data.before.table[mark].n ELSE last.data.low_range

\* the mappings of the builtins: S <-> GID low_range + 3 + idx
StaticMapping(key, val) ==
    \E idx \in DOMAIN WELL_KNOWN_SIDS :
        LET gid == TdbGid(last.data.low_range + 3 + (idx - 1))
            sid == TdbSid(WELL_KNOWN_SIDS[idx].sid)
        IN <<key, val>> \in {<<gid, sid>>, <<sid, gid>>}

\* the entry is a unix id among the static ids
AmongStatic(entry) ==
    entry.kind \in {"GID", "UID"} /\ last.data.low_range <= entry.n /\ entry.n < AboveStatic

C25_MarksAboveStaticIds ==
    Succeeded =>
        /\ \A mark \in Marks :
              /\ tdb.table[mark].n >= AboveStatic
              /\ tdb.table[mark].n >= MarkBefore(mark)
              /\ MarkBefore(mark) >= AboveStatic => tdb.table[mark].n = MarkBefore(mark)
        /\ \A key \in DOMAIN tdb.table :
              AmongStatic(key) \/ AmongStatic(tdb.table[key]) =>
                  StaticMapping(key, tdb.table[key])

----------------------------------------------------------------------------
(* C26: clear_idmap_cache may be called with the idmap daemon running or    *)
(* stopped, and whenever it has finished, with success or with an error of  *)
(* the cache wipe or of the gencache flush, the daemon has been started     *)
(* again, and the SMB service too if it ran before the call: while no       *)
(* execution is in progress after one has finished, the daemon runs.        *)

Finished == {j \in DOMAIN jobs : jobs[j].state \in {"SUCCESS", "FAILED"}}

InProgress == {j \in DOMAIN jobs : jobs[j].state = "RUNNING"}

C26_DaemonRunsAfterClear ==
    Finished # {} /\ InProgress = {} =>
        /\ services.idmap
        /\ \A j \in Finished : jobs[j].smb_started => services.cifs

----------------------------------------------------------------------------
(* C27: every persisted domain has range_low < range_high: a create or an   *)
(* update whose range_high is less than or equal to range_low, the equal    *)
(* case included, is rejected with a validation error; it is never accepted *)
(* and never ends with an unhandled exception.                              *)

\* the record the call that ends in this step validated
Validating ==
    IF last'.op = "create" THEN last'.data ELSE Merge(store[last'.id], last'.data)

C27_RangeLowBelowRangeHigh ==
    [][/\ \A i \in DOMAIN store' : store'[i].range_low < store'[i].range_high
       /\ (/\ last'.op \in {"create", "update"}
           /\ last'.next_range = <<>>
           /\ Validating.range_high <= Validating.range_low)
          => last'.status = "ValidationErrors" /\ store' = store]_vars

----------------------------------------------------------------------------
(* C28: the backend registry is the same in every state and consistent:     *)
(* for every backend required_keys is a subset of supported_keys; RID has   *)
(* no required key and supports exactly sssd_compat; LDAP requires exactly  *)
(* ldap_base_dn, ldap_user_dn and ldap_url and stores a secret; defaults()  *)
(* holds exactly the supported keys whose declared default is not None,     *)
(* with that default.                                                       *)

\* the parameters of a backend that are declared with a default other than None
DeclaredDefaults(backend) ==
    {k \in DOMAIN IdmapBackend[backend].parameters :
        IdmapBackend[backend].parameters[k].default # "None"}

\* every backend kind, those of the stored domains among them
BackendKinds == BackendNames \cup {store[i].idmap_backend : i \in DOMAIN store}

C28_RegistryConsistent ==
    /\ \A backend \in BackendKinds :
          /\ required_keys(backend) \subseteq supported_keys(backend)
          /\ DOMAIN defaults(backend) = DeclaredDefaults(backend)
          /\ DOMAIN defaults(backend) \subseteq supported_keys(backend)
          /\ \A k \in DOMAIN defaults(backend) :
                defaults(backend)[k] = IdmapBackend[backend].parameters[k].default
    /\ required_keys("RID") = {}
    /\ supported_keys("RID") = {"sssd_compat"}
    /\ required_keys("LDAP") = {"ldap_base_dn", "ldap_user_dn", "ldap_url"}
    /\ stores_secret("LDAP") = "True"

\* a create with the LDAP backend and its required keys was accepted, and the
\* row holds the defaults of the backend
C28_Witness ==
    /\ last.op = "create" /\ last.status = "ok"
    /\ last.data.idmap_backend = "LDAP"
    /\ DOMAIN last.data.options = {"ldap_base_dn", "ldap_user_dn", "ldap_url"}
    /\ store[last.id].options.ssl = "OFF"
    /\ store[last.id].options.validate_certificates = "True"
    /\ "ldap_user_dn_password" \notin DOMAIN store[last.id].options

----------------------------------------------------------------------------
(* C29: in every state reached by creates and updates the AUTORID backend   *)
(* is used by no domain but DS_TYPE_ACTIVEDIRECTORY, and                    *)
(* DS_TYPE_DEFAULT_DOMAIN uses the TDB backend only: a create or an update  *)
(* that would give AUTORID to another domain, or another backend than TDB   *)
(* to DS_TYPE_DEFAULT_DOMAIN, is not accepted and leaves the table as it    *)
(* was.                                                                     *)

\* the backend suits the name of the domain
BackendSuitsName(d) ==
    /\ d.idmap_backend = "AUTORID" => d.name = "DS_TYPE_ACTIVEDIRECTORY"
    /\ d.name = "DS_TYPE_DEFAULT_DOMAIN" => d.idmap_backend = "TDB"

C29_AutoridAndTdbPlacement ==
    [][/\ \A i \in DOMAIN store' : BackendSuitsName(store'[i])
       /\ (last'.op \in {"create", "update"} /\ ~BackendSuitsName(Validating))
          => last'.status # "ok" /\ store' = store]_vars

----------------------------------------------------------------------------
(* C30: under any health of the directory services, any two domains that    *)
(* synchronize writes into the daemon configuration have ranges that do not *)
(* overlap, but for two AD-backend domains and for the default domain with  *)
(* an AUTORID domain; a system domain of a directory service is written     *)
(* only in a health in which the overlap validation is enforced against it; *)
(* and one domain at most is written under the section '*'.                 *)

\* the section idmap_to_smbconf writes the domain under, "None" if it leaves it out
SectionOf(d) == conf_domain(d, in_order(store), ds_state)

Rendered == {d \in query : SectionOf(d) # "None"}

C30_RenderedRangesDisjoint ==
    /\ \A a \in Rendered, b \in Rendered :
          a.id # b.id /\ ~PermittedPair(a, b) => ~HalfOpenOverlap(a, b)
    /\ \A d \in Rendered : Enabled(d)
    /\ Cardinality({d \in Rendered : SectionOf(d) = "*"}) <= 1

====
